---- MODULE Spec2Model ----
(***************************************************************************)
(* tg-dash: the portfolio-message parser (src/parser.ts, lib/parser.ts),   *)
(* the copy-trader change detection of the three refresh drivers           *)
(* (src/index.ts, lib/scheduler.ts, app/api/portfolio/refresh/route.ts)    *)
(* and the historical backfill with duplicate suppression.                 *)
(*                                                                         *)
(* Texts are TLA+ strings.  The non-ASCII glyphs of the source are written *)
(* with ASCII stand-ins: the bullet as "*", the check marks as "^" and the *)
(* left arrow of the back button as "<".                                   *)
(***************************************************************************)
EXTENDS Integers, Sequences, FiniteSets, TLC

(***************************************************************************)
(* JavaScript string primitives used by the parser.                        *)
(***************************************************************************)
UpperChars == "ABCDEFGHIJKLMNOPQRSTUVWXYZ"
LowerChars == "abcdefghijklmnopqrstuvwxyz"
DigitChars == "0123456789"
DigitSet == {"0", "1", "2", "3", "4", "5", "6", "7", "8", "9"}
DigitComma == DigitSet \cup {","}
SignSet == {"+", "-"}
SpaceSet == {" ", "\t", "\r", "\n"}
UpperSet == {SubSeq(UpperChars, i, i) : i \in 1..Len(UpperChars)}
Bullet == "*"
CheckMarks == {"^"}

\* the character at index i, "" outside the string
CharAt(s, i) == IF i >= 1 /\ i <= Len(s) THEN SubSeq(s, i, i) ELSE ""

\* the characters a..b of s, clipped to the string
Sub(s, a, b) ==
  LET lo == IF a < 1 THEN 1 ELSE a
      hi == IF b > Len(s) THEN Len(s) ELSE b
  IN IF lo > hi THEN "" ELSE SubSeq(s, lo, hi)

IndexIn(c, alphabet) == CHOOSE i \in 1..Len(alphabet) : CharAt(alphabet, i) = c

ToLowerChar(c) == IF c \in UpperSet THEN CharAt(LowerChars, IndexIn(c, UpperChars)) ELSE c

RECURSIVE toLowerCase(_)
toLowerCase(s) ==
  LET h == Len(s) \div 2
  IN IF Len(s) <= 1 THEN ToLowerChar(s)
     ELSE toLowerCase(SubSeq(s, 1, h)) \o toLowerCase(SubSeq(s, h + 1, Len(s)))

includes(s, sub) == \E i \in 1..(Len(s) - Len(sub) + 1) : SubSeq(s, i, i + Len(sub) - 1) = sub

startsWith(s, p) == Len(s) >= Len(p) /\ SubSeq(s, 1, Len(p)) = p

\* index of the first occurrence of sub in s, 0 when there is none
indexOf(s, sub) ==
  IF includes(s, sub)
  THEN CHOOSE i \in 1..(Len(s) - Len(sub) + 1) :
         /\ SubSeq(s, i, i + Len(sub) - 1) = sub
         /\ \A j \in 1..(i - 1) : SubSeq(s, j, j + Len(sub) - 1) # sub
  ELSE 0

\* last index of the maximal run of characters of class C that starts at p (p-1: empty run)
RECURSIVE RunEnd(_, _, _)
RunEnd(s, p, C) == IF p <= Len(s) /\ CharAt(s, p) \in C THEN RunEnd(s, p + 1, C) ELSE p - 1

RECURSIVE RunStart(_, _, _)
RunStart(s, p, C) == IF p >= 1 /\ CharAt(s, p) \in C THEN RunStart(s, p - 1, C) ELSE p + 1

trim(s) == Sub(s, RunEnd(s, 1, SpaceSet) + 1, RunStart(s, Len(s), SpaceSet) - 1)

RECURSIVE split(_)
split(s) ==
  LET k == indexOf(s, "\n")
  IN IF k = 0 THEN <<s>> ELSE <<Sub(s, 1, k - 1)>> \o split(Sub(s, k + 1, Len(s)))

RECURSIVE removeCommas(_)
removeCommas(s) ==
  IF s = "" THEN ""
  ELSE (IF Head(s) = "," THEN "" ELSE Head(s)) \o removeCommas(Tail(s))

\* text.split('\n').map(l => l.trim()).filter(l => l.length > 0)
splitLines(txt) ==
  LET raw == split(txt)
      trimmed == [i \in 1..Len(raw) |-> trim(raw[i])]
      nonEmpty(l) == Len(l) > 0
  IN SelectSeq(trimmed, nonEmpty)

(***************************************************************************)
(* Numbers: a parsed decimal is m * 10^-e, kept normalised so that equal   *)
(* values are equal records; NaN is the result of a failed parseFloat.     *)
(***************************************************************************)
RECURSIVE Norm(_, _)
Norm(m, e) ==
  IF e > 0 /\ m % 10 = 0 THEN Norm(m \div 10, e - 1) ELSE [nan |-> FALSE, m |-> m, e |-> e]

NaN == [nan |-> TRUE, m |-> 0, e |-> 0]
Zero == Norm(0, 0)
Null == [null |-> TRUE]

RECURSIVE Pow10(_)
Pow10(k) == IF k = 0 THEN 1 ELSE 10 * Pow10(k - 1)

RECURSIVE DigitsValue(_)
DigitsValue(s) ==
  IF s = "" THEN 0
  ELSE DigitsValue(Sub(s, 1, Len(s) - 1)) * 10 + (IndexIn(CharAt(s, Len(s)), DigitChars) - 1)

Negate(v) == IF v.nan THEN v ELSE [v EXCEPT !.m = 0 - v.m]

\* the value of the integer digits ip and the fraction digits fp, negated when neg
decimalOf(neg, ip, fp) ==
  IF ip = "" /\ fp = "" THEN NaN
  ELSE Norm((IF neg THEN 0 - 1 ELSE 1) * (DigitsValue(ip) * Pow10(Len(fp)) + DigitsValue(fp)),
            Len(fp))

\* the digits after a dot that follows index ipEnd of body, "" when no dot follows
fractionDigits(body, ipEnd) ==
  IF CharAt(body, ipEnd + 1) = "."
  THEN Sub(body, ipEnd + 2, RunEnd(body, ipEnd + 2, DigitSet))
  ELSE ""

unsignedFloat(neg, body, ipEnd) ==
  decimalOf(neg, Sub(body, 1, ipEnd), fractionDigits(body, ipEnd))

signedFloat(neg, body) == unsignedFloat(neg, body, RunEnd(body, 1, DigitSet))

\* parseFloat on a string of the shape  sign? digits* ('.' digits*)?
parseFloat(str) ==
  IF CharAt(str, 1) \in SignSet
  THEN signedFloat(CharAt(str, 1) = "-", Sub(str, 2, Len(str)))
  ELSE signedFloat(FALSE, str)

\* parseInt(str, 10) on a string of digits
parseInt(str) == DigitsValue(str)

\* last index of a match of  [\d,]+\.?\d*  that starts at p, 0 when it does not match
NumEnd(s, p) ==
  LET a == RunEnd(s, p, DigitComma)
      b == IF a + 1 <= Len(s) /\ CharAt(s, a + 1) = "." THEN a + 1 ELSE a
  IN IF a < p THEN 0 ELSE RunEnd(s, b + 1, DigitSet)

\* last index of a match of  [+-]?[\d,]+\.?\d*  that starts at p, 0 when it does not match
SignedNumEnd(s, p) ==
  IF p <= Len(s) /\ CharAt(s, p) \in SignSet THEN NumEnd(s, p + 1) ELSE NumEnd(s, p)

\* first index at which the predicate on positions holds, 0 when it holds nowhere
FirstIndex(s, P(_)) ==
  IF \E p \in 1..Len(s) : P(p)
  THEN CHOOSE p \in 1..Len(s) : P(p) /\ \A q \in 1..(p - 1) : ~P(q)
  ELSE 0

\* first index from p on at which  [+-]?[\d,]+\.?\d*  matches, 0 when there is none
RECURSIVE firstNumberAt(_, _)
firstNumberAt(s, p) ==
  IF p > Len(s) THEN 0
  ELSE IF SignedNumEnd(s, p) # 0 THEN p
  ELSE firstNumberAt(s, p + 1)

\* parseFloat(...) || null
nonZeroOrNull(v) == IF v.nan \/ v.m = 0 THEN Null ELSE v

numberAt(txt, p0) ==
  IF p0 = 0 THEN Null
  ELSE nonZeroOrNull(parseFloat(removeCommas(SubSeq(txt, p0, SignedNumEnd(txt, p0)))))

extractNumber(txt) == numberAt(txt, firstNumberAt(txt, 1))


(***************************************************************************)
(* The regular expressions of the parser.                                  *)
(***************************************************************************)
\* /^#?\d+\./ : index of the dot that ends the numbered prefix, 0 when the line has none
numberedPrefixEnd(line) ==
  LET s == IF startsWith(line, "#") THEN 2 ELSE 1
      d == RunEnd(line, s, DigitSet)
  IN IF d >= s /\ CharAt(line, d + 1) = "." THEN d + 1 ELSE 0

matchesNumbered(line) == numberedPrefixEnd(line) # 0

\* /^#\s*\d+$/ : a bare pagination button such as "# 2"
matchesPagination(line) ==
  LET a == RunEnd(line, 2, SpaceSet)
      d == RunEnd(line, a + 1, DigitSet)
  IN startsWith(line, "#") /\ d >= a + 1 /\ d = Len(line)

\* the numbered-position heuristic: line.match(/^#?\d+\./) && line.includes('?')
IsPositionHeaderAs(line) == matchesNumbered(line)

IsPositionHeader(line) == matchesNumbered(line) /\ includes(line, "?")

\* g.replace(/,/g, '') || '0', then parseFloat
parseFloatOrZero(g) ==
  LET stripped == removeCommas(g) IN IF stripped = "" THEN Zero ELSE parseFloat(stripped)

afterSign(s, p) == IF CharAt(s, p) \in SignSet THEN p + 1 ELSE p
afterDollar(s, p) == IF CharAt(s, p) = "$" THEN p + 1 ELSE p
afterSpaces(s, p) == RunEnd(s, p, SpaceSet) + 1

\* "%)" follows index e
closesPercent(s, e) == CharAt(s, e + 1) = "%" /\ CharAt(s, e + 2) = ")"

\* the first successful match of a sequence of match attempts
RECURSIVE firstOk(_, _)
firstOk(attempts, i) ==
  IF i > Len(attempts) THEN [ok |-> FALSE]
  ELSE IF attempts[i].ok THEN attempts[i]
  ELSE firstOk(attempts, i + 1)

\* /([+-]?)\$?([\d,]+\.?\d*)\s*\(([+-]?)([\d,]+\.?\d*)%\)/ tried at index p: the amount is
\* s[p2..e1], the parenthesis is at p3 and the percentage is s[p4..e2]
summaryPnlGroups(s, p, p2, e1, p3, p4, e2) ==
  IF e1 # 0 /\ CharAt(s, p3) = "(" /\ e2 # 0 /\ closesPercent(s, e2)
  THEN [ok |-> TRUE,
        sign |-> IF CharAt(s, p) \in SignSet THEN CharAt(s, p) ELSE "",
        amount |-> SubSeq(s, p2, e1),
        pctSign |-> IF p4 > p3 + 1 THEN CharAt(s, p3 + 1) ELSE "",
        pct |-> SubSeq(s, p4, e2)]
  ELSE [ok |-> FALSE]

summaryPnlPct(s, p, p2, e1, p3) ==
  summaryPnlGroups(s, p, p2, e1, p3, afterSign(s, p3 + 1), NumEnd(s, afterSign(s, p3 + 1)))

summaryPnlParen(s, p, p2, e1) == summaryPnlPct(s, p, p2, e1, afterSpaces(s, e1 + 1))

summaryPnlAmount(s, p, p2) == summaryPnlParen(s, p, p2, NumEnd(s, p2))

summaryPnlAt(s, p) == summaryPnlAmount(s, p, afterDollar(s, afterSign(s, p)))

summaryPnlMatch(s) == firstOk([p \in 1..Len(s) |-> summaryPnlAt(s, p)], 1)

\* /([+-]?[\d,]+\.?\d*)\s*\$?\s*\(([+-]?[\d,]+\.?\d*)%\)/ tried at index p: the amount is
\* s[p..e1], the parenthesis is at p4 and the percentage is s[p4+1..e2]
positionPnlGroups(s, p, e1, p4, e2) ==
  IF e1 # 0 /\ CharAt(s, p4) = "(" /\ e2 # 0 /\ closesPercent(s, e2)
  THEN [ok |-> TRUE, amount |-> SubSeq(s, p, e1), pct |-> SubSeq(s, p4 + 1, e2)]
  ELSE [ok |-> FALSE]

positionPnlPct(s, p, e1, p4) == positionPnlGroups(s, p, e1, p4, SignedNumEnd(s, p4 + 1))

positionPnlParen(s, p, e1) ==
  positionPnlPct(s, p, e1, afterSpaces(s, afterDollar(s, afterSpaces(s, e1 + 1))))

positionPnlAt(s, p) == positionPnlParen(s, p, SignedNumEnd(s, p))

positionPnlMatch(s) == firstOk([p \in 1..Len(s) |-> positionPnlAt(s, p)], 1)

\* optional strings: <<>> is null, <<s>> is the string s
null == <<>>
Some(s) == <<s>>

AllDigits(s, a, b) == \A i \in a..b : CharAt(s, i) \in DigitSet

\* /\d{4}-\d{2}-\d{2}/ at index p
isoDateAt(s, p) ==
  /\ AllDigits(s, p, p + 3) /\ CharAt(s, p + 4) = "-"
  /\ AllDigits(s, p + 5, p + 6) /\ CharAt(s, p + 7) = "-"
  /\ AllDigits(s, p + 8, p + 9)

\* /\d{1,2}\/\d{1,2}\/\d{4}/ at index p: the last index of the match, 0 when none
slashDateEnd(s, p) ==
  LET a == IF CharAt(s, p + 1) = "/" THEN p + 1 ELSE p + 2
      b == IF CharAt(s, a + 2) = "/" THEN a + 2 ELSE a + 3
  IN IF /\ AllDigits(s, p, a - 1) /\ CharAt(s, a) = "/"
        /\ AllDigits(s, a + 1, b - 1) /\ CharAt(s, b) = "/"
        /\ AllDigits(s, b + 1, b + 4)
     THEN b + 4 ELSE 0

extractDate(txt) ==
  LET Iso(p) == isoDateAt(txt, p)
      Slash(p) == slashDateEnd(txt, p) # 0
      pi == FirstIndex(txt, Iso)
      ps == FirstIndex(txt, Slash)
  IN IF pi # 0 THEN Some(SubSeq(txt, pi, pi + 9))
     ELSE IF ps # 0 THEN Some(SubSeq(txt, ps, slashDateEnd(txt, ps)))
     ELSE null

\* text.match(new RegExp('copied|from|copy trade by' + '\\s*:?\\s*(.+)', 'i')): the suffix
\* binds to the last alternative only, so a match of 'copied' or 'from' has no group 1
\* and match[1].trim() raises a TypeError.
CopyTradeBy == "copy trade by"

copyTradeByGroup(txt, p) ==
  LET q == p + Len(CopyTradeBy)
      a == RunEnd(txt, q, SpaceSet) + 1
      b == IF CharAt(txt, a) = ":" THEN a + 1 ELSE a
      c == RunEnd(txt, b, SpaceSet) + 1
  IN IF q > Len(txt) THEN [ok |-> FALSE, group |-> ""]
     ELSE IF c <= Len(txt) THEN [ok |-> TRUE, group |-> SubSeq(txt, c, Len(txt))]
     ELSE [ok |-> TRUE, group |-> SubSeq(txt, Len(txt), Len(txt))]

\* the outcome when 'copied' or 'from' first matches at pb and 'copy trade by' with its
\* group first matches at pf (0: no match)
textAfterAt(txt, pb, pf) ==
  IF pb = 0 /\ pf = 0 THEN [threw |-> FALSE, value |-> null]
  ELSE IF pf # 0 /\ (pb = 0 \/ pf < pb)
       THEN [threw |-> FALSE, value |-> Some(trim(copyTradeByGroup(txt, pf).group))]
       ELSE [threw |-> TRUE, value |-> null]

textAfterIn(txt, low) ==
  LET Bare(p) == Sub(low, p, p + 5) = "copied" \/ Sub(low, p, p + 3) = "from"
      Full(p) == /\ Sub(low, p, p + Len(CopyTradeBy) - 1) = CopyTradeBy
                 /\ copyTradeByGroup(txt, p).ok
  IN textAfterAt(txt, FirstIndex(low, Bare), FirstIndex(low, Full))

extractTextAfter(txt) == textAfterIn(txt, toLowerCase(txt))

\* text.match(/Positions\s*\((\d+)\)/i): the digits of the first match, "" when none
positionsHeaderDigits(txt) ==
  LET low == toLowerCase(txt)
      ParenAt(p) == RunEnd(txt, p + 9, SpaceSet) + 1
      DigEnd(p) == RunEnd(txt, ParenAt(p) + 1, DigitSet)
      Ok(p) == /\ Sub(low, p, p + 8) = "positions"
               /\ CharAt(txt, ParenAt(p)) = "("
               /\ DigEnd(p) > ParenAt(p)
               /\ CharAt(txt, DigEnd(p) + 1) = ")"
      p0 == FirstIndex(txt, Ok)
  IN IF p0 = 0 THEN "" ELSE SubSeq(txt, ParenAt(p0) + 1, DigEnd(p0))

(***************************************************************************)
(* parsePortfolioResponse, pass 1: summary fields.                         *)
(***************************************************************************)
emptySnapshotAs(ts, clock) ==
  [total_balance |-> Zero, available_balance |-> Zero, invested |-> Zero, value |-> Zero,
   total_pnl_usd |-> Zero, total_pnl_pct |-> Zero, timestamp |-> clock, total_positions |-> 0]

emptySnapshot(ts, clock) ==
  [total_balance |-> Zero, available_balance |-> Zero, invested |-> Zero, value |-> Zero,
   total_pnl_usd |-> Zero, total_pnl_pct |-> Zero,
   timestamp |-> IF ts # <<>> THEN ts[1] ELSE clock,
   total_positions |-> 0]

acceptNonNegativeAs(n) == n # Null

\* if (x !== null && x >= 0)
acceptNonNegative(n) == n # Null /\ n.m >= 0

\* sign * parseFloat(group.replace(/,/g, '') || '0')
signedAmount(sign, g) == IF sign = "-" THEN Negate(parseFloatOrZero(g)) ELSE parseFloatOrZero(g)

\* the total pnl of a line whose combined pattern gave pm and whose first number is pnl
totalPnlFrom(snap, pm, pnl) ==
  IF pm.ok
  THEN [snap EXCEPT !.total_pnl_usd = signedAmount(pm.sign, pm.amount),
                    !.total_pnl_pct = signedAmount(pm.pctSign, pm.pct)]
  ELSE IF pnl # Null THEN [snap EXCEPT !.total_pnl_usd = pnl] ELSE snap

totalPnlFields(snap, line) == totalPnlFrom(snap, summaryPnlMatch(line), extractNumber(line))

summaryFieldsAs(snap, line, lowerLine, n) ==
  LET standalone == ~matchesNumbered(line) /\ ~startsWith(line, Bullet) /\ ~matchesPagination(line)
      withValue(s) == IF includes(lowerLine, "value") /\ acceptNonNegative(n)
                      THEN [s EXCEPT !.value = n] ELSE s
  IN IF includes(lowerLine, "total balance")
     THEN withValue(IF acceptNonNegative(n) THEN [snap EXCEPT !.total_balance = n] ELSE snap)
     ELSE IF includes(lowerLine, "available balance")
             \/ (includes(lowerLine, "available") /\ includes(lowerLine, "balance"))
     THEN withValue(IF acceptNonNegative(n) THEN [snap EXCEPT !.available_balance = n] ELSE snap)
     ELSE IF includes(lowerLine, "invested") /\ ~includes(lowerLine, "shares") /\ standalone
     THEN withValue(IF acceptNonNegative(n) THEN [snap EXCEPT !.invested = n] ELSE snap)
     ELSE IF includes(lowerLine, "value") /\ ~includes(lowerLine, "pnl") /\ standalone
     THEN (IF acceptNonNegative(n) THEN [snap EXCEPT !.value = n] ELSE snap)
     ELSE IF (includes(lowerLine, "total pnl") \/ includes(lowerLine, "total profit"))
             /\ ~matchesNumbered(line) /\ ~matchesPagination(line)
     THEN totalPnlFields(snap, line)
     ELSE snap

\* the routing of a summary line, given its lower-case form and its first number n
summaryFields(snap, line, lowerLine, n) ==
  LET standalone == ~matchesNumbered(line) /\ ~startsWith(line, Bullet) /\ ~matchesPagination(line)
  IN IF includes(lowerLine, "total balance")
     THEN (IF acceptNonNegative(n) THEN [snap EXCEPT !.total_balance = n] ELSE snap)
     ELSE IF includes(lowerLine, "available balance")
             \/ (includes(lowerLine, "available") /\ includes(lowerLine, "balance"))
     THEN (IF acceptNonNegative(n) THEN [snap EXCEPT !.available_balance = n] ELSE snap)
     ELSE IF includes(lowerLine, "invested") /\ ~includes(lowerLine, "shares") /\ standalone
     THEN (IF acceptNonNegative(n) THEN [snap EXCEPT !.invested = n] ELSE snap)
     ELSE IF includes(lowerLine, "value") /\ ~includes(lowerLine, "pnl") /\ standalone
     THEN (IF acceptNonNegative(n) THEN [snap EXCEPT !.value = n] ELSE snap)
     ELSE IF (includes(lowerLine, "total pnl") \/ includes(lowerLine, "total profit"))
             /\ ~matchesNumbered(line) /\ ~matchesPagination(line)
     THEN totalPnlFields(snap, line)
     ELSE snap

\* one iteration of the first loop on a line that is not a position header
summaryLine(snap, line) == summaryFields(snap, line, toLowerCase(line), extractNumber(line))

RECURSIVE firstPassAs(_, _, _)
firstPassAs(lines, i, snap) ==
  IF i > Len(lines) THEN snap
  ELSE firstPassAs(lines, i + 1, summaryLine(snap, lines[i]))

\* parser.ts:30-37: the summary loop ends at the first numbered header with a question mark
RECURSIVE firstPass(_, _, _)
firstPass(lines, i, snap) ==
  IF i > Len(lines) \/ IsPositionHeader(lines[i]) THEN snap
  ELSE firstPass(lines, i + 1, summaryLine(snap, lines[i]))

(***************************************************************************)
(* parsePortfolioResponse, pass 2: positions.                              *)
(***************************************************************************)
BackButton == "< back"

isControlLineAs(line) == FALSE

\* the bottom controls that end position parsing
isControlLine(line) ==
  LET lowerLine == toLowerCase(line)
  IN \/ includes(lowerLine, BackButton)
     \/ includes(lowerLine, "refresh")
     \/ includes(lowerLine, "last page")
     \/ includes(lowerLine, "next")
     \/ includes(lowerLine, "auto redeem")
     \/ (includes(lowerLine, "sell") /\ ~includes(lowerLine, "shares"))
     \/ includes(lowerLine, "limit")
     \/ matchesPagination(line)

\* /^•\s*(Invested|invested)/
matchesBulletInvested(line) ==
  LET a == RunEnd(line, 2, SpaceSet) + 1
  IN startsWith(line, Bullet) /\ Sub(line, a, a + 7) \in {"Invested", "invested"}

\* the rows that are not a market and are skipped without closing the current position
isSkippedRow(line) ==
  LET lowerLine == toLowerCase(line)
  IN \/ includes(lowerLine, "total balance")
     \/ includes(lowerLine, "view profile")
     \/ includes(lowerLine, "polygonscan")
     \/ startsWith(lowerLine, Bullet \o " invested:")
     \/ (startsWith(lowerLine, "invested:") /\ ~includes(line, "?"))
     \/ includes(lowerLine, "polymarket may have")
     \/ includes(lowerLine, "delayed price data")
     \/ includes(lowerLine, "manual trades")
     \/ includes(lowerLine, "copy trades")
     \/ matchesBulletInvested(line)
     \/ trim(line) = ""
     \/ (Len(line) < 10 /\ ~includes(line, "?") /\ ~matchesNumbered(line))

opensPosition(line) ==
  LET isNumberedMarket == matchesNumbered(line) /\ (includes(line, "?") \/ Len(line) > 20)
      isMarketQuestion == includes(line, "?") /\ Len(line) > 15 /\ matchesNumbered(line)
  IN isNumberedMarket \/ isMarketQuestion

\* a.replace(/^[checkmarks]\s*/, '').trim()
stripCheckMark(a) ==
  IF CharAt(a, 1) \in CheckMarks THEN trim(Sub(a, RunEnd(a, 2, SpaceSet) + 1, Len(a))) ELSE a

\* line.replace(/^#?\d+\.\s*/, '').trim() without a leading checkmark
marketTextOf(line) ==
  stripCheckMark(trim(Sub(line, afterSpaces(line, numberedPrefixEnd(line) + 1), Len(line))))

mentionsNo(lowerLine) == includes(lowerLine, "no") \/ includes(lowerLine, "short")

newPosition(line) ==
  [market_question |-> marketTextOf(line),
   side |-> IF mentionsNo(toLowerCase(line)) THEN "No" ELSE "Yes",
   entry_price |-> Zero, invested |-> Zero, shares |-> Zero, value |-> Zero,
   pnl_usd |-> Zero, pnl_pct |-> Zero,
   expiry_timestamp |-> null, copied_from |-> null]

orZero(n) == IF n = Null THEN Zero ELSE n

\* extractNumber(line) || 0
numberOrZero(line) == orZero(extractNumber(line))

positionPnlFrom(pos, line, pm) ==
  IF pm.ok
  THEN [pos EXCEPT !.pnl_usd = parseFloatOrZero(pm.amount),
                   !.pnl_pct = parseFloatOrZero(pm.pct)]
  ELSE [pos EXCEPT !.pnl_usd = numberOrZero(line)]

positionPnlFields(pos, line) == positionPnlFrom(pos, line, positionPnlMatch(line))

\* currentPosition.copied_from = extractTextAfter(...) || null
copiedFromField(pos, copied) ==
  IF copied.threw THEN [threw |-> TRUE, pos |-> pos]
  ELSE [threw |-> FALSE,
        pos |-> [pos EXCEPT !.copied_from =
                   IF copied.value = Some("") THEN null ELSE copied.value]]

\* the routing of a detail line, given its lower-case form and extractNumber(line) || 0
detailFields(pos, line, lowerLine, n) ==
  LET same == [threw |-> FALSE, pos |-> pos]
  IN IF includes(lowerLine, "side:") \/ includes(lowerLine, "position:")
     THEN [same EXCEPT !.pos.side = IF mentionsNo(lowerLine) THEN "No" ELSE "Yes"]
     ELSE IF includes(lowerLine, "entry") \/ includes(lowerLine, "entry price")
     THEN [same EXCEPT !.pos.entry_price = n]
     ELSE IF includes(lowerLine, "invested") /\ ~includes(lowerLine, "shares")
     THEN [same EXCEPT !.pos.invested = n]
     ELSE IF includes(lowerLine, "shares")
     THEN [same EXCEPT !.pos.shares = n]
     ELSE IF includes(lowerLine, "value") /\ ~includes(lowerLine, "pnl")
     THEN [same EXCEPT !.pos.value = n]
     ELSE IF includes(lowerLine, "pnl") \/ includes(lowerLine, "profit")
     THEN [same EXCEPT !.pos = positionPnlFields(pos, line)]
     ELSE IF includes(lowerLine, "expiry") \/ includes(lowerLine, "expires")
     THEN [same EXCEPT !.pos.expiry_timestamp = extractDate(line)]
     ELSE IF includes(lowerLine, "copied") \/ includes(lowerLine, "from")
             \/ includes(lowerLine, CopyTradeBy)
     THEN copiedFromField(pos, extractTextAfter(line))
     ELSE same

\* the detail line of an open position: the position after the line, or a raised TypeError
detailLine(pos, line) == detailFields(pos, line, toLowerCase(line), numberOrZero(line))

\* the loop state of the second pass: currentPosition is <<>> (null) or <<position>>
secondPassStart ==
  [inPositionsSection |-> FALSE, currentPosition |-> <<>>, positions |-> <<>>,
   stopped |-> FALSE, threw |-> FALSE]

pushCurrentAs(st) ==
  IF st.currentPosition # <<>> THEN Append(st.positions, st.currentPosition[1]) ELSE st.positions

\* if (currentPosition && currentPosition.market_question) positions.push(currentPosition)
pushCurrent(st) ==
  IF st.currentPosition # <<>> /\ st.currentPosition[1].market_question # ""
  THEN Append(st.positions, st.currentPosition[1])
  ELSE st.positions

\* the loop state after a detail line
afterDetail(st, detail) ==
  IF detail.threw THEN [st EXCEPT !.inPositionsSection = TRUE, !.threw = TRUE]
  ELSE [st EXCEPT !.inPositionsSection = TRUE, !.currentPosition = <<detail.pos>>]

\* one iteration of the second loop, inSection being inPositionsSection after line 100-102
positionStep(st, line, inSection) ==
  IF st.inPositionsSection /\ isControlLine(line) THEN [st EXCEPT !.stopped = TRUE]
  ELSE IF ~inSection THEN st
  ELSE IF isSkippedRow(line) THEN [st EXCEPT !.inPositionsSection = TRUE]
  ELSE IF opensPosition(line)
  THEN [st EXCEPT !.inPositionsSection = TRUE,
                  !.positions = pushCurrent(st),
                  !.currentPosition = <<newPosition(line)>>]
  ELSE IF st.currentPosition # <<>>
  THEN afterDetail(st, detailLine(st.currentPosition[1], line))
  ELSE [st EXCEPT !.inPositionsSection = TRUE]

positionLine(st, line) ==
  positionStep(st, line, st.inPositionsSection \/ IsPositionHeader(line))

RECURSIVE secondPass(_, _, _)
secondPass(lines, i, st) ==
  IF i > Len(lines) \/ st.stopped \/ st.threw THEN st
  ELSE secondPass(lines, i + 1, positionLine(st, lines[i]))

\* snapshot.total_positions = parseInt(headerMatch[1], 10) when the header matched
withPositionCount(snap, digits) ==
  IF digits # "" THEN [snap EXCEPT !.total_positions = parseInt(digits)] ELSE snap

\* the outcome of a call: a TypeError raised to the caller, or {snapshot, positions}
resultOf(snapshot, st) ==
  IF st.threw THEN [threw |-> TRUE]
  ELSE [threw |-> FALSE, snapshot |-> snapshot, positions |-> pushCurrent(st)]

parseLines(lines, snapshot0) ==
  resultOf(firstPass(lines, 1, snapshot0), secondPass(lines, 1, secondPassStart))

parsePortfolioResponse(txt, ts, clock) ==
  parseLines(splitLines(txt),
             withPositionCount(emptySnapshot(ts, clock), positionsHeaderDigits(txt)))

(***************************************************************************)
(* parsePortfolioResponse of lib/parser.ts, the camelCase form.  Its       *)
(* tests on lines are those of parser.ts; the fields it writes are named   *)
(* totalBalance, marketQuestion, and so on.                                *)
(***************************************************************************)
libEmptySnapshot(ts, clock) ==
  [totalBalance |-> Zero, availableBalance |-> Zero, invested |-> Zero, value |-> Zero,
   totalPnlUsd |-> Zero, totalPnlPct |-> Zero,
   timestamp |-> IF ts # <<>> THEN ts[1] ELSE clock,
   totalPositions |-> 0]

libTotalPnlFrom(snap, pm, pnl) ==
  IF pm.ok
  THEN [snap EXCEPT !.totalPnlUsd = signedAmount(pm.sign, pm.amount),
                    !.totalPnlPct = signedAmount(pm.pctSign, pm.pct)]
  ELSE IF pnl # Null THEN [snap EXCEPT !.totalPnlUsd = pnl] ELSE snap

\* lib/parser.ts pass 1: the else-if chain over the lower-case line
libSummaryFields(snap, line, lowerLine, n) ==
  LET standalone == ~matchesNumbered(line) /\ ~startsWith(line, Bullet) /\ ~matchesPagination(line)
  IN IF includes(lowerLine, "total balance")
     THEN (IF acceptNonNegative(n) THEN [snap EXCEPT !.totalBalance = n] ELSE snap)
     ELSE IF includes(lowerLine, "available balance")
             \/ (includes(lowerLine, "available") /\ includes(lowerLine, "balance"))
     THEN (IF acceptNonNegative(n) THEN [snap EXCEPT !.availableBalance = n] ELSE snap)
     ELSE IF includes(lowerLine, "invested") /\ ~includes(lowerLine, "shares") /\ standalone
     THEN (IF acceptNonNegative(n) THEN [snap EXCEPT !.invested = n] ELSE snap)
     ELSE IF includes(lowerLine, "value") /\ ~includes(lowerLine, "pnl") /\ standalone
     THEN (IF acceptNonNegative(n) THEN [snap EXCEPT !.value = n] ELSE snap)
     ELSE IF (includes(lowerLine, "total pnl") \/ includes(lowerLine, "total profit"))
             /\ ~matchesNumbered(line) /\ ~matchesPagination(line)
     THEN libTotalPnlFrom(snap, summaryPnlMatch(line), extractNumber(line))
     ELSE snap

RECURSIVE libFirstPass(_, _, _)
libFirstPass(lines, i, snap) ==
  IF i > Len(lines) \/ IsPositionHeader(lines[i]) THEN snap
  ELSE libFirstPass(lines, i + 1,
                    libSummaryFields(snap, lines[i], toLowerCase(lines[i]), extractNumber(lines[i])))

libNewPosition(line) ==
  [marketQuestion |-> marketTextOf(line),
   side |-> IF mentionsNo(toLowerCase(line)) THEN "No" ELSE "Yes",
   entryPrice |-> Zero, invested |-> Zero, shares |-> Zero, value |-> Zero,
   pnlUsd |-> Zero, pnlPct |-> Zero,
   expiryTimestamp |-> null, copiedFrom |-> null]

libPositionPnlFrom(pos, line, pm) ==
  IF pm.ok
  THEN [pos EXCEPT !.pnlUsd = parseFloatOrZero(pm.amount),
                   !.pnlPct = parseFloatOrZero(pm.pct)]
  ELSE [pos EXCEPT !.pnlUsd = numberOrZero(line)]

\* currentPosition.copiedFrom = extractTextAfter(...) || null
libCopiedFromField(pos, copied) ==
  IF copied.threw THEN [threw |-> TRUE, pos |-> pos]
  ELSE [threw |-> FALSE,
        pos |-> [pos EXCEPT !.copiedFrom =
                   IF copied.value = Some("") THEN null ELSE copied.value]]

\* lib/parser.ts pass 2: the else-if chain over a detail line
libDetailFields(pos, line, lowerLine, n) ==
  LET same == [threw |-> FALSE, pos |-> pos]
  IN IF includes(lowerLine, "side:") \/ includes(lowerLine, "position:")
     THEN [same EXCEPT !.pos.side = IF mentionsNo(lowerLine) THEN "No" ELSE "Yes"]
     ELSE IF includes(lowerLine, "entry") \/ includes(lowerLine, "entry price")
     THEN [same EXCEPT !.pos.entryPrice = n]
     ELSE IF includes(lowerLine, "invested") /\ ~includes(lowerLine, "shares")
     THEN [same EXCEPT !.pos.invested = n]
     ELSE IF includes(lowerLine, "shares")
     THEN [same EXCEPT !.pos.shares = n]
     ELSE IF includes(lowerLine, "value") /\ ~includes(lowerLine, "pnl")
     THEN [same EXCEPT !.pos.value = n]
     ELSE IF includes(lowerLine, "pnl") \/ includes(lowerLine, "profit")
     THEN [same EXCEPT !.pos = libPositionPnlFrom(pos, line, positionPnlMatch(line))]
     ELSE IF includes(lowerLine, "expiry") \/ includes(lowerLine, "expires")
     THEN [same EXCEPT !.pos.expiryTimestamp = extractDate(line)]
     ELSE IF includes(lowerLine, "copied") \/ includes(lowerLine, "from")
             \/ includes(lowerLine, CopyTradeBy)
     THEN libCopiedFromField(pos, extractTextAfter(line))
     ELSE same

libPushCurrentAs(st) == st.positions

\* if (currentPosition && currentPosition.marketQuestion) positions.push(currentPosition)
libPushCurrent(st) ==
  IF st.currentPosition # <<>> /\ st.currentPosition[1].marketQuestion # ""
  THEN Append(st.positions, st.currentPosition[1])
  ELSE st.positions

libPositionStep(st, line, inSection) ==
  IF st.inPositionsSection /\ isControlLine(line) THEN [st EXCEPT !.stopped = TRUE]
  ELSE IF ~inSection THEN st
  ELSE IF isSkippedRow(line) THEN [st EXCEPT !.inPositionsSection = TRUE]
  ELSE IF opensPosition(line)
  THEN [st EXCEPT !.inPositionsSection = TRUE,
                  !.positions = libPushCurrent(st),
                  !.currentPosition = <<libNewPosition(line)>>]
  ELSE IF st.currentPosition # <<>>
  THEN afterDetail(st, libDetailFields(st.currentPosition[1], line, toLowerCase(line),
                                       numberOrZero(line)))
  ELSE [st EXCEPT !.inPositionsSection = TRUE]

RECURSIVE libSecondPass(_, _, _)
libSecondPass(lines, i, st) ==
  IF i > Len(lines) \/ st.stopped \/ st.threw THEN st
  ELSE libSecondPass(lines, i + 1,
                     libPositionStep(st, lines[i],
                                     st.inPositionsSection \/ IsPositionHeader(lines[i])))

\* snapshot.totalPositions = parseInt(headerMatch[1], 10) when the header matched
libWithPositionCount(snap, digits) ==
  IF digits # "" THEN [snap EXCEPT !.totalPositions = parseInt(digits)] ELSE snap

libResultOf(snapshot, st) ==
  IF st.threw THEN [threw |-> TRUE]
  ELSE [threw |-> FALSE, snapshot |-> snapshot, positions |-> libPushCurrent(st)]

libParseLines(lines, snapshot0) ==
  libResultOf(libFirstPass(lines, 1, snapshot0), libSecondPass(lines, 1, secondPassStart))

\* lib/parser.ts parsePortfolioResponse(text, timestamp)
libParsePortfolioResponse(txt, ts, clock) ==
  libParseLines(splitLines(txt),
                libWithPositionCount(libEmptySnapshot(ts, clock), positionsHeaderDigits(txt)))

\* the field renaming between the two forms
snakeSnapshot(s) ==
  [total_balance |-> s.totalBalance, available_balance |-> s.availableBalance,
   invested |-> s.invested, value |-> s.value, total_pnl_usd |-> s.totalPnlUsd,
   total_pnl_pct |-> s.totalPnlPct, timestamp |-> s.timestamp,
   total_positions |-> s.totalPositions]

snakePosition(p) ==
  [market_question |-> p.marketQuestion, side |-> p.side, entry_price |-> p.entryPrice,
   invested |-> p.invested, shares |-> p.shares, value |-> p.value, pnl_usd |-> p.pnlUsd,
   pnl_pct |-> p.pnlPct, expiry_timestamp |-> p.expiryTimestamp, copied_from |-> p.copiedFrom]

snakeResult(r) ==
  IF r.threw THEN r
  ELSE [threw |-> FALSE, snapshot |-> snakeSnapshot(r.snapshot),
        positions |-> [i \in 1..Len(r.positions) |-> snakePosition(r.positions[i])]]

(***************************************************************************)
(* Inputs of the parser.  LineLibrary is the alphabet of message lines;    *)
(* each entry carries, next to the raw line, what a reader of the message  *)
(* sees in it: whether it is a numbered header with a question mark, which *)
(* summary field it states and with which amount, and the signs of a PNL   *)
(* figure.  A message is a sequence of library indices joined by "\n".     *)
(***************************************************************************)
MaxLines == 2
MaxClock == 1
MaxCalls == 2

Dec(m, e) == Norm(m, e)

Entry(line, header, field, amount, pnl, negAmount, negPct) ==
  [line |-> line, header |-> header, field |-> field, amount |-> amount,
   pnl |-> pnl, negAmount |-> negAmount, negPct |-> negPct]

Plain(line) == Entry(line, FALSE, "none", Zero, "none", FALSE, FALSE)
Header(line) == Entry(line, TRUE, "none", Zero, "none", FALSE, FALSE)
Summary(line, field, amount) == Entry(line, FALSE, field, amount, "none", FALSE, FALSE)
Pnl(line, pnl, negAmount, negPct) == Entry(line, FALSE, "none", Zero, pnl, negAmount, negPct)

\* a numbered line of more than 20 characters with a check mark and no text
BlankHeaderLine == "#2.                   ^"

LineLibrary ==
  << Summary("Total Balance: $90.20", "total_balance", Dec(9020, 2)),
     Summary("Total Balance: -5.50", "total_balance", Dec(-550, 2)),
     Summary("  Available Balance: $12.50 ", "available_balance", Dec(1250, 2)),
     Summary("Invested: $77.70", "invested", Dec(7770, 2)),
     Summary("Value: $80.00", "value", Dec(8000, 2)),
     Pnl("Total PNL: -$15.19 (-0.02%)", "total", TRUE, TRUE),
     Pnl("Total PNL: -$15.19", "total", TRUE, FALSE),
     Header("#1. Will X happen?"),
     Plain("Entry: 0.45"),
     Pnl("PNL: -$5.00 (-10.00%)", "position", TRUE, TRUE),
     Pnl("PNL: -7.25", "position", TRUE, FALSE),
     Plain("Copied from: trader_a"),
     Plain("Copy trade by: trader_a"),
     Plain("Refresh"),
     Plain("3. Market without question mark"),
     Summary("Value: -3.00", "value", Dec(-300, 2)),
     Summary("Available Balance: -2.00", "available_balance", Dec(-200, 2)),
     Summary("Invested: -7.00", "invested", Dec(-700, 2)),
     Plain("Side: Yes"),
     Summary("Invested: $50.00", "invested", Dec(5000, 2)),
     Plain("Shares: 111"),
     Summary("Value: $55.00", "value", Dec(5500, 2)),
     Pnl("PNL: $5.00 (10.00%)", "position", FALSE, FALSE),
     Header("#2. Will the next vote pass?"),
     Header("#3. Will copy trades grow?"),
     Plain("# 2"),
     Summary("Total Balance Value: $5.00", "total_balance", Dec(500, 2)),
     Summary("Invested Value: $3.00", "invested", Dec(300, 2)),
     Summary("Available Balance Invested: $4.00", "available_balance", Dec(400, 2)),
     Plain(BlankHeaderLine) >>

\* the lines that are combined freely; the remaining ones occur in the fixed messages below
CoreLines == {1, 2, 5, 6, 7, 8, 10, 11, 12, 14, 15, 16}

RECURSIVE Join(_)
Join(q) ==
  IF Len(q) = 0 THEN ""
  ELSE IF Len(q) = 1 THEN q[1]
  ELSE q[1] \o "\n" \o Join(Tail(q))

TextOf(in) == Join([i \in 1..Len(in) |-> LineLibrary[in[i]].line])

\* the elements of q at the indices of S, in order
RECURSIVE Pick(_, _, _)
Pick(q, S, i) ==
  IF i > Len(q) THEN <<>>
  ELSE (IF i \in S THEN <<q[i]>> ELSE <<>>) \o Pick(q, S, i + 1)

\* the round-trip message of the specification: summary, one header, seven detail lines
ExampleSummary == <<1, 3, 4, 5, 6, 8>>
ExampleDetails == <<19, 9, 20, 21, 22, 23>>
ExampleFull == ExampleSummary \o ExampleDetails \o <<12>>

ExampleInputs ==
  {ExampleSummary \o Pick(ExampleDetails, S, 1) \o tail :
     S \in SUBSET (1..Len(ExampleDetails)), tail \in {<<>>, <<12>>, <<13>>}}

ShortInputs == UNION {[1..n -> CoreLines] : n \in 0..MaxLines}

\* the remaining summary and detail lines, alone, in both orders and under a header
FieldInputs ==
  {<<3>>, <<4>>, <<17>>, <<18>>, <<3, 17>>, <<17, 3>>, <<4, 18>>, <<18, 4>>,
   <<8, 9>>, <<8, 13>>, <<8, 3>>, <<8, 4>>, <<13>>, <<9>>}

\* headers that mention a control word or a noise phrase, controls between positions, and
\* a numbered line that holds a check mark and nothing else
PositionInputs ==
  {<<8, 24>>, <<8, 25>>, <<24, 8>>, <<8, 24, 8>>, <<8, 15>>, <<14, 8>>, <<8, 14, 9>>,
   <<8, 9, 14, 8, 11>>, <<8, 9, 26, 8>>, <<8, 9, 8, 11, 14>>,
   <<8, 30>>, <<30, 8>>, <<8, 30, 9>>, <<8, 9, 30, 11>>}

\* summary lines that match the keywords of several fields
RoutingInputs == {<<27>>, <<28>>, <<29>>, <<27, 5>>, <<5, 27>>, <<28, 1>>, <<4, 28, 5>>}

Inputs == ShortInputs \cup ExampleInputs \cup FieldInputs \cup PositionInputs \cup RoutingInputs

ExplicitTimestamps == {7}

NoResult == [none |-> TRUE]

(***************************************************************************)
(* The refresh drivers and change detection.  The Express server           *)
(* (src/index.ts) has two drivers, the POST /api/refresh handler and the   *)
(* timer-driven autoRefresh, which share one lastKnownTraders; the Next    *)
(* application has the scheduler's autoRefresh and the refresh route, each *)
(* with a lastKnownTraders and a tradersInitialized flag of its own.       *)
(***************************************************************************)
MaxPasses == 2

Traders == {"alice", "bob"}
TraderOrder == <<"alice", "bob">>

Apps == {"express", "next"}
Drivers == {"refresh", "auto", "scheduler", "route"}
DriversOf(a) == IF a = "express" THEN {"refresh", "auto"}
                ELSE IF a = "next" THEN {"scheduler", "route"} ELSE {}
Modules == {"index", "scheduler", "route"}
ModuleOf(d) == IF d \in {"refresh", "auto"} THEN "index" ELSE d

\* the bot's reply that lists one copied position per trader of S
RECURSIVE PositionBlocks(_, _)
PositionBlocks(S, k) ==
  IF k > Len(TraderOrder) THEN ""
  ELSE (IF TraderOrder[k] \in S
        THEN "\n#" \o CharAt(DigitChars, k + 1) \o ". Will X happen?\nCopy trade by: " \o TraderOrder[k]
        ELSE "") \o PositionBlocks(S, k + 1)

ResponseOf(S) == "Total Balance: $90.20" \o PositionBlocks(S, 1)
ThrowingResponse == "Total Balance: $90.20\n#1. Will X happen?\nCopied from: alice"
ResponseTexts == {ResponseOf(S) : S \in SUBSET Traders} \cup {ThrowingResponse}

\* index.ts:49-54: the distinct trimmed non-empty copied_from values of the positions
currentTradersOf(positions) ==
  {trim(positions[i].copied_from[1]) :
     i \in {k \in 1..Len(positions) : /\ positions[k].copied_from # null
                                      /\ trim(positions[k].copied_from[1]) # ""}}

\* getUniqueTraders: the distinct copied_from values stored that are not null and not ''
storedTradersOf(positions) ==
  {positions[i].copied_from[1] :
     i \in {k \in 1..Len(positions) : /\ positions[k].copied_from # null
                                      /\ positions[k].copied_from[1] # ""}}

addedTraders(last, current) == current \ last

removedTradersAs(last, current) == {}

removedTraders(last, current) == last \ current

replaceTradersAs(last, current) == last \cup current

\* index.ts:87, scheduler.ts:103: the new set replaces the old one
replaceTraders(last, current) == current

\* a set of traders as a sequence, in the iteration order of the model
RECURSIVE InOrder(_, _)
InOrder(S, k) ==
  IF k > Len(TraderOrder) THEN <<>>
  ELSE (IF TraderOrder[k] \in S THEN <<TraderOrder[k]>> ELSE <<>>) \o InOrder(S, k + 1)

eventsFor(type, S) == LET q == InOrder(S, 1) IN [i \in 1..Len(q) |-> [event_type |-> type, trader_name |-> q[i]]]

\* index.ts:57-83: nothing when lastKnownTraders is empty or no latest snapshot is read
expressChanges(last, current, haveSnapshot) ==
  IF last # {} /\ haveSnapshot
  THEN eventsFor("copier_added", addedTraders(last, current))
       \o eventsFor("copier_removed", removedTraders(last, current))
  ELSE <<>>

\* scheduler.ts / refresh route: both loops run whatever lastKnownTraders holds
nextChanges(last, current) ==
  eventsFor("copier_added", addedTraders(last, current))
  \o eventsFor("copier_removed", removedTraders(last, current))

\* a function as an explicit table, so that its values are computed once
Tabulated(f) == f @@ <<>>

\* the outcome of parsePortfolioResponse(responseText) for each reply and clock value
parsedResponses ==
  Tabulated([r \in ResponseTexts, t \in 0..MaxClock |-> parsePortfolioResponse(r, <<>>, t)])

IdleBackfill ==
  [pc |-> "idle", queue |-> <<>>, totalMessages |-> 0, saved |-> 0, skipped |-> 0,
   errors |-> 0, log |-> <<>>, current |-> <<>>]

IdlePass ==
  [pc |-> "idle", current |-> {}, stored |-> {}, snapTime |-> 0, snapshotId |-> 0,
   before |-> {}, queue |-> <<>>, stamp |-> 0, emitted |-> <<>>, detected |-> FALSE,
   failed |-> FALSE, outcome |-> "none", latestBefore |-> {}]

VARIABLES
  input,      \* the message as a sequence of library indices
  text,       \* the message text handed to parsePortfolioResponse
  timestamp,  \* the optional timestamp argument: <<>> or <<t>>
  now,        \* the wall clock read by new Date()
  result,     \* the outcome of the latest call, NoResult before the first
  previous,   \* the outcome of the call before it
  calls,      \* the clock values at which the calls were made
  libResult,  \* the outcome of the call of the lib/parser.ts form, NoResult before it
  app,                 \* which server runs: "express", "next", or "none"
  snapshots,           \* the persisted snapshots, in insertion order (id = index)
  events,              \* the copy_trading_events table, in insertion order
  lastKnownTraders,    \* the module-level trader set of each module
  tradersInitialized,  \* the module-level flag of scheduler.ts and of the refresh route
  seeded,              \* history: a seed of the module's set from a stored snapshot has succeeded
  pass,                \* the refresh pass of each driver
  started,             \* the number of passes started
  backfill,            \* the run of POST /api/historical/fetch
  chat,                \* the messages of the chat with the bot, oldest first
  send,                \* the call of sendPositionsCommand
  auth,                \* the auth sessions of the server and its latest auth response
  timers               \* the server process: its Telegram client and its refresh timers

parserVars == <<input, text, timestamp, result, previous, calls, libResult>>
reconVars == <<app, snapshots, events, lastKnownTraders, tradersInitialized, seeded, pass, started, backfill>>
serviceVars == <<chat, send, auth, timers>>
vars == <<input, text, timestamp, now, result, previous, calls, libResult,
          app, snapshots, events, lastKnownTraders, tradersInitialized, seeded, pass, started, backfill,
          chat, send, auth, timers>>

IdleSend ==
  [pc |-> "idle", clock |-> 0, startTime |-> 0, lastMessageId |-> 0, seen |-> {},
   polls |-> 0, returned |-> <<>>, error |-> ""]

SessionIds == {"s1", "s2"}

NoResponse == [endpoint |-> "none"]

IdleAuth ==
  [server |-> "none", clock |-> 0, nextCleanup |-> 0, started |-> 0,
   sessions |-> [id \in SessionIds |-> <<>>], disconnected |-> {}, expired |-> {},
   response |-> NoResponse]

IdleTimers ==
  [server |-> "none", phase |-> "off", client |-> FALSE, refreshInterval |-> 0,
   active |-> {}, created |-> 0, startupRefreshes |-> 0, calls |-> 0, fired |-> 0]

ServiceIdle == chat = <<>> /\ send = IdleSend /\ auth = IdleAuth /\ timers = IdleTimers

ParserIdle ==
  /\ input = <<>> /\ text = "" /\ timestamp = <<>>
  /\ result = NoResult /\ previous = NoResult /\ calls = <<>> /\ libResult = NoResult

ReconIdle ==
  /\ app = "none" /\ snapshots = <<>> /\ events = <<>>
  /\ lastKnownTraders = [m \in Modules |-> {}]
  /\ tradersInitialized = [m \in Modules |-> FALSE]
  /\ seeded = [m \in Modules |-> FALSE]
  /\ pass = [d \in Drivers |-> IdlePass]
  /\ started = 0
  /\ backfill = IdleBackfill

\* the timestamp argument: absent, or one of the explicit timestamps
Timestamps == {<<>>} \cup {<<t>> : t \in ExplicitTimestamps}

ParserInit ==
  /\ input \in Inputs
  /\ text = TextOf(input)
  /\ timestamp \in Timestamps
  /\ now = 0
  /\ result = NoResult
  /\ previous = NoResult
  /\ calls = <<>>
  /\ libResult = NoResult
  /\ ReconIdle
  /\ ServiceIdle

\* a caller invokes parsePortfolioResponse(text, timestamp)
ParseCall ==
  /\ app = "none"
  /\ Len(calls) < MaxCalls
  /\ result' = parsePortfolioResponse(text, timestamp, now)
  /\ previous' = result
  /\ calls' = Append(calls, now)
  /\ UNCHANGED <<input, text, timestamp, now, libResult>>
  /\ UNCHANGED <<reconVars, serviceVars>>

\* time passes
Tick ==
  /\ app = "none"
  /\ now < MaxClock
  /\ now' = now + 1
  /\ UNCHANGED <<parserVars, serviceVars>>
  /\ UNCHANGED <<reconVars, serviceVars>>

ParserNext == ParseCall \/ Tick

SpecParser == ParserInit /\ [][ParserNext]_vars

\* a caller hands the same text and timestamp to both forms of the parser
ParseBothForms ==
  /\ app = "none"
  /\ libResult = NoResult
  /\ result' = parsePortfolioResponse(text, timestamp, now)
  /\ libResult' = libParsePortfolioResponse(text, timestamp, now)
  /\ previous' = result
  /\ calls' = Append(calls, now)
  /\ UNCHANGED <<input, text, timestamp, now>>
  /\ UNCHANGED <<reconVars, serviceVars>>

FormsNext == ParseBothForms \/ Tick

SpecForms == ParserInit /\ [][FormsNext]_vars

(***************************************************************************)
(* Storage writes.                                                         *)
(***************************************************************************)
insertRowAs(rows, row) == <<row>>

\* INSERT INTO portfolio_snapshots / copy_trading_events: a new row after the stored ones
insertRow(rows, row) == Append(rows, row)

(***************************************************************************)
(* Storage reads.                                                          *)
(***************************************************************************)
\* ORDER BY timestamp DESC LIMIT 1: the ids of the snapshots with the greatest timestamp
LatestIds ==
  {i \in 1..Len(snapshots) : \A j \in 1..Len(snapshots) : snapshots[j].timestamp <= snapshots[i].timestamp}

InFlight(d) == pass[d].pc \notin {"idle", "done"}

Finish(d, p, outcome) == [pass EXCEPT ![d] = [p EXCEPT !.pc = "done", !.outcome = outcome]]

(***************************************************************************)
(* A refresh pass, one action per suspension point.                        *)
(***************************************************************************)
\* the handler or the timer callback is entered; without a Telegram client it ends at once
StartPass(d) ==
  /\ d \in DriversOf(app)
  /\ \A e \in Drivers : ~InFlight(e)
  /\ started < MaxPasses
  /\ started' = started + 1
  /\ \E connected \in BOOLEAN, reseed \in BOOLEAN :
       /\ d # "auto" => reseed
       /\ ~connected => reseed
       /\ pass' = [e \in Drivers |->
                     IF e # d THEN IdlePass
                     ELSE IF ~connected THEN [IdlePass EXCEPT !.pc = "done", !.outcome = "error",
                                                         !.latestBefore = LatestIds]
                     ELSE [IdlePass EXCEPT !.pc = IF reseed THEN "seed" ELSE "fetch",
                                            !.latestBefore = LatestIds]]
  /\ UNCHANGED <<now, app, snapshots, events, lastKnownTraders, tradersInitialized, seeded>>
  /\ UNCHANGED <<parserVars, backfill, serviceVars>>

\* index.ts:33-44 initializeCopyTradingState: every failure is caught and logged
initializeCopyTradingState ==
  \/ \* getLatestSnapshot finds nothing, or fails and returns null
     UNCHANGED <<lastKnownTraders, seeded>>
  \/ \* the traders of the latest snapshot replace the set
     \E i \in LatestIds :
       /\ lastKnownTraders' = [lastKnownTraders EXCEPT !["index"] = snapshots[i].traders]
       /\ seeded' = [seeded EXCEPT !["index"] = TRUE]
  \/ \* getUniqueTraders fails and returns []
     /\ snapshots # <<>>
     /\ lastKnownTraders' = [lastKnownTraders EXCEPT !["index"] = {}]
     /\ UNCHANGED seeded

\* initializeTelegram of the Express server, which ends with initializeCopyTradingState
expressSeed(d) ==
  /\ d \in {"refresh", "auto"}
  /\ pass[d].pc = "seed"
  /\ initializeCopyTradingState
  /\ pass' = [pass EXCEPT ![d].pc = "fetch"]
  /\ UNCHANGED <<now, app, snapshots, events, tradersInitialized, started>>
  /\ UNCHANGED <<parserVars, backfill, serviceVars>>

\* scheduler.ts / refresh route: initializeTraders
nextSeed(d) ==
  /\ d \in {"scheduler", "route"}
  /\ pass[d].pc = "seed"
  /\ IF tradersInitialized[d]
     THEN UNCHANGED <<lastKnownTraders, tradersInitialized, seeded>>
     ELSE \/ \* a read throws: logged, the flag stays false
             UNCHANGED <<lastKnownTraders, tradersInitialized, seeded>>
          \/ /\ snapshots = <<>>
             /\ tradersInitialized' = [tradersInitialized EXCEPT ![d] = TRUE]
             /\ UNCHANGED <<lastKnownTraders, seeded>>
          \/ \E i \in LatestIds :
               /\ lastKnownTraders' = [lastKnownTraders EXCEPT ![d] = snapshots[i].traders]
               /\ tradersInitialized' = [tradersInitialized EXCEPT ![d] = TRUE]
               /\ seeded' = [seeded EXCEPT ![d] = TRUE]
  /\ pass' = [pass EXCEPT ![d].pc = "fetch"]
  /\ UNCHANGED <<now, app, snapshots, events, started>>
  /\ UNCHANGED <<parserVars, backfill, serviceVars>>

\* the passes once driver d has parsed the bot's answer: a TypeError ends the pass
afterParse(d, parsed) ==
  IF parsed.threw THEN Finish(d, pass[d], "error")
  ELSE [pass EXCEPT ![d] =
          [pass[d] EXCEPT !.pc = "save",
                          !.current = currentTradersOf(parsed.positions),
                          !.stored = storedTradersOf(parsed.positions),
                          !.snapTime = parsed.snapshot.timestamp]]

\* sendPositionsCommand and parsePortfolioResponse(responseText)
FetchAndParse(d) ==
  /\ pass[d].pc = "fetch"
  /\ \/ \* the transport fails
        pass' = Finish(d, pass[d], "error")
     \/ \E response \in ResponseTexts :
          pass' = afterParse(d, parsedResponses[response, now])
  /\ UNCHANGED <<now, app, snapshots, events, lastKnownTraders, tradersInitialized, seeded, started>>
  /\ UNCHANGED <<parserVars, backfill, serviceVars>>

\* savePortfolio: db.ts inserts the snapshot row and then each position, lib/db.ts issues
\* one nested create
SavePortfolio(d) ==
  /\ pass[d].pc = "save"
  /\ \/ /\ snapshots' = insertRow(snapshots, [timestamp |-> pass[d].snapTime,
                                           traders |-> pass[d].stored, complete |-> TRUE])
        /\ pass' = [pass EXCEPT ![d].pc = "detect", ![d].snapshotId = Len(snapshots) + 1]
     \/ \* the insert of the snapshot fails
        /\ pass' = Finish(d, [pass[d] EXCEPT !.failed = TRUE,
                                             !.before = lastKnownTraders[ModuleOf(d)]], "error")
        /\ UNCHANGED snapshots
     \/ \* db.ts: the snapshot row is in, the insert of a position fails
        /\ app = "express"
        /\ pass[d].stored # {}
        /\ \E S \in SUBSET pass[d].stored :
             snapshots' = insertRow(snapshots, [timestamp |-> pass[d].snapTime,
                                             traders |-> S, complete |-> FALSE])
        /\ pass' = Finish(d, [pass[d] EXCEPT !.failed = TRUE,
                                             !.before = lastKnownTraders[ModuleOf(d)]], "error")
  /\ UNCHANGED <<now, app, events, lastKnownTraders, tradersInitialized, seeded, started>>
  /\ UNCHANGED <<parserVars, backfill, serviceVars>>

\* index.ts:46-63: the diff against lastKnownTraders and the read of the latest snapshot
expressDetect(d) ==
  /\ d \in {"refresh", "auto"}
  /\ pass[d].pc = "detect"
  /\ LET last == lastKnownTraders["index"]
         p == [pass[d] EXCEPT !.pc = "emit", !.before = last, !.detected = TRUE]
     IN IF last = {}
        THEN pass' = [pass EXCEPT ![d] = p]
        ELSE \/ \E i \in LatestIds :
                  pass' = [pass EXCEPT ![d] =
                             [p EXCEPT !.queue = expressChanges(last, pass[d].current, TRUE),
                                       !.stamp = snapshots[i].timestamp]]
             \/ \* getLatestSnapshot fails and returns null
                pass' = [pass EXCEPT ![d] =
                           [p EXCEPT !.queue = expressChanges(last, pass[d].current, FALSE),
                                     !.failed = TRUE]]
  /\ UNCHANGED <<now, app, snapshots, events, lastKnownTraders, tradersInitialized, seeded, started>>
  /\ UNCHANGED <<parserVars, backfill, serviceVars>>

\* scheduler.ts:73-75 / route: currentTraders is read back from storage
nextDetect(d) ==
  /\ d \in {"scheduler", "route"}
  /\ pass[d].pc = "detect"
  /\ \/ pass' = [pass EXCEPT ![d] =
                   [pass[d] EXCEPT !.pc = "emit", !.before = lastKnownTraders[d],
                                   !.detected = TRUE,
                                   !.current = snapshots[pass[d].snapshotId].traders,
                                   !.queue = nextChanges(lastKnownTraders[d],
                                                         snapshots[pass[d].snapshotId].traders)]]
     \/ \* getUniqueTraders throws
        pass' = Finish(d, [pass[d] EXCEPT !.failed = TRUE, !.before = lastKnownTraders[d],
                                          !.detected = TRUE], "error")
  /\ UNCHANGED <<now, app, snapshots, events, lastKnownTraders, tradersInitialized, seeded, started>>
  /\ UNCHANGED <<parserVars, backfill, serviceVars>>

\* one await saveCopyTradingEvent(...) of the loops
EmitEvent(d) ==
  /\ pass[d].pc = "emit"
  /\ pass[d].queue # <<>>
  /\ LET ev == [timestamp |-> IF app = "express" THEN pass[d].stamp ELSE now,
                event_type |-> Head(pass[d].queue).event_type,
                trader_name |-> Head(pass[d].queue).trader_name]
     IN \/ /\ events' = insertRow(events, ev)
           /\ pass' = [pass EXCEPT ![d].queue = Tail(pass[d].queue),
                                   ![d].emitted = Append(pass[d].emitted, ev)]
        \/ \* the insert fails: index.ts catches it in detectCopyTradingChanges and the
           \* handler goes on; scheduler.ts and the route let it propagate
           /\ pass' = Finish(d, [pass[d] EXCEPT !.failed = TRUE],
                             IF app = "express" THEN "ok" ELSE "error")
           /\ UNCHANGED events
  /\ UNCHANGED <<now, app, snapshots, lastKnownTraders, tradersInitialized, seeded, started>>
  /\ UNCHANGED <<parserVars, backfill, serviceVars>>

\* lastKnownTraders = currentTraders
UpdateLastKnown(d) ==
  /\ pass[d].pc = "emit"
  /\ pass[d].queue = <<>>
  /\ lastKnownTraders' = [lastKnownTraders EXCEPT ![ModuleOf(d)] = replaceTraders(@, pass[d].current)]
  /\ pass' = Finish(d, pass[d], "ok")
  /\ UNCHANGED <<now, app, snapshots, events, tradersInitialized, seeded, started>>
  /\ UNCHANGED <<parserVars, backfill, serviceVars>>

ReconInit ==
  /\ ParserIdle
  /\ ServiceIdle
  /\ now = 0
  /\ app \in Apps
  /\ snapshots = <<>>
  /\ events = <<>>
  /\ lastKnownTraders = [m \in Modules |-> {}]
  /\ tradersInitialized = [m \in Modules |-> FALSE]
  /\ seeded = [m \in Modules |-> FALSE]
  /\ pass = [d \in Drivers |-> IdlePass]
  /\ started = 0
  /\ backfill = IdleBackfill

\* the process starts over a database that a previous run has filled
RestartInit ==
  /\ ParserIdle
  /\ ServiceIdle
  /\ now = 0
  /\ app \in Apps
  /\ snapshots = <<[timestamp |-> 0, traders |-> {"alice"}, complete |-> TRUE]>>
  /\ events = <<>>
  /\ lastKnownTraders = [m \in Modules |-> {}]
  /\ tradersInitialized = [m \in Modules |-> FALSE]
  /\ seeded = [m \in Modules |-> FALSE]
  /\ pass = [d \in Drivers |-> IdlePass]
  /\ started = 0
  /\ backfill = IdleBackfill

ReconTick ==
  /\ app # "none"
  /\ now < MaxClock
  /\ now' = now + 1
  /\ UNCHANGED <<parserVars, serviceVars>>
  /\ UNCHANGED <<reconVars, serviceVars>>

ReconNext ==
  \/ ReconTick
  \/ \E d \in Drivers :
       \/ StartPass(d)
       \/ expressSeed(d)
       \/ nextSeed(d)
       \/ FetchAndParse(d)
       \/ SavePortfolio(d)
       \/ expressDetect(d)
       \/ nextDetect(d)
       \/ EmitEvent(d)
       \/ UpdateLastKnown(d)

SpecRecon == ReconInit /\ [][ReconNext]_vars

SpecRestart == RestartInit /\ [][ReconNext]_vars

\* the timer fires, or a request arrives, while another pass is suspended at an await:
\* neither autoRefresh nor the handlers take a lock
StartOverlapped(d) ==
  /\ d \in DriversOf(app)
  /\ ~InFlight(d)
  /\ \E e \in Drivers : InFlight(e)
  /\ started < MaxPasses
  /\ started' = started + 1
  /\ \E connected \in BOOLEAN, reseed \in BOOLEAN :
       /\ d # "auto" => reseed
       /\ ~connected => reseed
       /\ pass' = [pass EXCEPT ![d] =
                     IF ~connected THEN [IdlePass EXCEPT !.pc = "done", !.outcome = "error",
                                                         !.latestBefore = LatestIds]
                     ELSE [IdlePass EXCEPT !.pc = IF reseed THEN "seed" ELSE "fetch",
                                            !.latestBefore = LatestIds]]
  /\ UNCHANGED <<now, app, snapshots, events, lastKnownTraders, tradersInitialized, seeded>>
  /\ UNCHANGED <<parserVars, backfill, serviceVars>>

OverlapNext == ReconNext \/ \E d \in Drivers : StartOverlapped(d)

SpecOverlap == ReconInit /\ [][OverlapNext]_vars

(***************************************************************************)
(* Backfill: POST /api/historical/fetch of the Express server.  Dates are  *)
(* in minutes.                                                             *)
(***************************************************************************)
MaxMessages == 2

ToleranceMinutes == 5

MessageDates == {3, 5, 10}
EmptyBalanceMessage == "Total Balance: $0.00"
MessageTexts == {ResponseOf({}), ResponseOf({"alice"}), EmptyBalanceMessage, ThrowingResponse}

\* fetchHistoricalMessages keeps the messages that mention the summary or the positions
isPortfolioMessage(message) == includes(message, "Total Balance") \/ includes(message, "Positions(")

Messages == {m \in [date : MessageDates, message : MessageTexts] : isPortfolioMessage(m.message)}

\* getMessages returns the newest message first
Batches ==
  UNION {{b \in [1..n -> Messages] : \A i \in 1..(n - 1) : b[i].date >= b[i + 1].date} : n \in 0..MaxMessages}

Reverse(q) == [i \in 1..Len(q) |-> q[Len(q) + 1 - i]]

Distance(a, b) == IF a >= b THEN a - b ELSE b - a

\* a persisted snapshot lies strictly inside the window around date
SnapshotNear(date) ==
  \E i \in 1..Len(snapshots) : Distance(snapshots[i].timestamp, date) < ToleranceMinutes

\* a persisted snapshot lies exactly on the edge of the window
SnapshotAtEdge(date) ==
  \E i \in 1..Len(snapshots) : Distance(snapshots[i].timestamp, date) = ToleranceMinutes

\* db.ts snapshotExistsNearTimestamp: ABS(julianday(timestamp) - julianday(?)) * 24 * 60 < ?
\* in floating point, so a snapshot on the edge may fall on either side; a failed read
\* answers false
snapshotExistsNearTimestamp(date, readOk, roundsBelow) ==
  readOk /\ (SnapshotNear(date) \/ (SnapshotAtEdge(date) /\ roundsBelow))

hasValidDataAs(parsed) == TRUE

\* index.ts:260: non-zero balance, a position, or a non-zero position count
hasValidData(parsed) ==
  \/ parsed.snapshot.total_balance.m > 0
  \/ Len(parsed.positions) > 0
  \/ parsed.snapshot.total_positions # 0

\* the outcome of parsePortfolioResponse(msg.message, msg.date) for each message
parsedMessages ==
  Tabulated([m \in Messages |-> parsePortfolioResponse(m.message, <<m.date>>, 0)])

\* what happened to one message of the batch
LogEntry(m, near, far, readOk, exists) ==
  [date |-> m.date, message |-> m.message, near |-> near, far |-> far,
   readFailed |-> ~readOk, exists |-> exists, threw |-> FALSE, valid |-> FALSE,
   saveFailed |-> FALSE, persisted |-> FALSE, outcome |-> "pending"]

\* the handler is entered: initializeTelegram, then the fetch of the history
BackfillStart ==
  /\ app = "express"
  /\ backfill.pc = "idle"
  /\ initializeCopyTradingState
  /\ \/ \* the fetch throws: the handler answers 500
        backfill' = [backfill EXCEPT !.pc = "failed"]
     \/ \E batch \in Batches :
          backfill' = [backfill EXCEPT !.pc = "check", !.queue = Reverse(batch),
                                       !.totalMessages = Len(batch)]
  /\ UNCHANGED <<now, app, snapshots, events, tradersInitialized, pass, started>>
  /\ UNCHANGED <<parserVars, serviceVars>>

\* the handler's state after the duplicate check, the parse and the data guard of the
\* message logged as entry
afterCheck(rest, entry, exists, parsed) ==
  IF exists
  THEN [backfill EXCEPT !.queue = rest, !.skipped = @ + 1,
                        !.log = Append(@, [entry EXCEPT !.outcome = "skipped"])]
  ELSE IF parsed.threw
  THEN [backfill EXCEPT !.queue = rest, !.errors = @ + 1,
                        !.log = Append(@, [entry EXCEPT !.threw = TRUE, !.outcome = "error"])]
  ELSE IF ~hasValidData(parsed)
  THEN [backfill EXCEPT !.queue = rest, !.skipped = @ + 1,
                        !.log = Append(@, [entry EXCEPT !.outcome = "skipped"])]
  ELSE [backfill EXCEPT !.pc = "save", !.current = <<[entry EXCEPT !.valid = TRUE]>>]

\* the duplicate check of msg answers exists
checkMessage(msg, rest, readOk, exists) ==
  afterCheck(rest,
             LogEntry(msg, SnapshotNear(msg.date),
                      ~SnapshotNear(msg.date) /\ ~SnapshotAtEdge(msg.date), readOk, exists),
             exists, parsedMessages[msg])

\* one iteration up to the save: the duplicate check, the parse and the data guard
BackfillCheck ==
  /\ backfill.pc = "check"
  /\ backfill.queue # <<>>
  /\ \E readOk \in BOOLEAN, roundsBelow \in BOOLEAN :
       backfill' = checkMessage(Head(backfill.queue), Tail(backfill.queue), readOk,
                     snapshotExistsNearTimestamp(Head(backfill.queue).date, readOk, roundsBelow))
  /\ UNCHANGED <<now, app, snapshots, events, lastKnownTraders, tradersInitialized, seeded, pass, started>>
  /\ UNCHANGED <<parserVars, serviceVars>>

\* savePortfolio(parsed.snapshot, parsed.positions) for the message logged as entry
saveParsed(entry, rest, parsed) ==
  \/ /\ snapshots' = insertRow(snapshots, [timestamp |-> parsed.snapshot.timestamp,
                                        traders |-> storedTradersOf(parsed.positions),
                                        complete |-> TRUE])
     /\ backfill' = [backfill EXCEPT !.pc = "check", !.queue = rest, !.saved = @ + 1,
                       !.current = <<>>,
                       !.log = Append(@, [entry EXCEPT !.persisted = TRUE,
                                                       !.outcome = "saved"])]
  \/ \* the insert of the snapshot fails
     /\ UNCHANGED snapshots
     /\ backfill' = [backfill EXCEPT !.pc = "check", !.queue = rest, !.errors = @ + 1,
                       !.current = <<>>,
                       !.log = Append(@, [entry EXCEPT !.saveFailed = TRUE,
                                                       !.outcome = "error"])]
  \/ \* the snapshot row is in, the insert of a position fails
     /\ Len(parsed.positions) > 0
     /\ \E S \in SUBSET storedTradersOf(parsed.positions) :
          snapshots' = insertRow(snapshots, [timestamp |-> parsed.snapshot.timestamp,
                                          traders |-> S, complete |-> FALSE])
     /\ backfill' = [backfill EXCEPT !.pc = "check", !.queue = rest, !.errors = @ + 1,
                       !.current = <<>>,
                       !.log = Append(@, [entry EXCEPT !.saveFailed = TRUE,
                                                       !.persisted = TRUE,
                                                       !.outcome = "error"])]

\* await savePortfolio(parsed.snapshot, parsed.positions)
BackfillSave ==
  /\ backfill.pc = "save"
  /\ saveParsed(backfill.current[1], Tail(backfill.queue), parsedMessages[Head(backfill.queue)])
  /\ UNCHANGED <<now, app, events, lastKnownTraders, tradersInitialized, seeded, pass, started>>
  /\ UNCHANGED <<parserVars, serviceVars>>

\* the loop is over: the handler answers with the counters
BackfillFinish ==
  /\ backfill.pc = "check"
  /\ backfill.queue = <<>>
  /\ backfill' = [backfill EXCEPT !.pc = "done"]
  /\ UNCHANGED <<now, app, snapshots, events, lastKnownTraders, tradersInitialized, seeded, pass, started>>
  /\ UNCHANGED <<parserVars, serviceVars>>

BackfillInit ==
  /\ ParserIdle
  /\ ServiceIdle
  /\ now = 0
  /\ app = "express"
  /\ snapshots \in {<<>>, <<[timestamp |-> 0, traders |-> {"alice"}, complete |-> TRUE]>>}
  /\ events = <<>>
  /\ lastKnownTraders = [m \in Modules |-> {}]
  /\ tradersInitialized = [m \in Modules |-> FALSE]
  /\ seeded = [m \in Modules |-> FALSE]
  /\ pass = [d \in Drivers |-> IdlePass]
  /\ started = 0
  /\ backfill = IdleBackfill

BackfillNext == BackfillStart \/ BackfillCheck \/ BackfillSave \/ BackfillFinish

SpecBackfill == BackfillInit /\ [][BackfillNext]_vars

(***************************************************************************)
(* Backfill of the Next application: POST /api/historical.                 *)
(***************************************************************************)
\* lib/db.ts snapshotExistsNearTimestamp: timestamp gte minTime and lte maxTime
existsNearInclusive(date) == SnapshotNear(date) \/ SnapshotAtEdge(date)

\* the handler is entered: the messages are taken in the order of fetchHistoricalMessages
HistoricalStart ==
  /\ app = "next"
  /\ backfill.pc = "idle"
  /\ \/ \* the fetch throws: the handler answers 500
        backfill' = [backfill EXCEPT !.pc = "failed"]
     \/ \E batch \in Batches :
          backfill' = [backfill EXCEPT !.pc = "check", !.queue = batch,
                                       !.totalMessages = Len(batch)]
  /\ UNCHANGED <<now, app, snapshots, events, lastKnownTraders, tradersInitialized, seeded, pass, started>>
  /\ UNCHANGED <<parserVars, serviceVars>>

\* one iteration of the loop over msg, logged as entry: every error is caught and logged
historicalMessage(entry, rest, readOk, exists, parsed) ==
  IF ~readOk \/ (~exists /\ parsed.threw)
  THEN /\ backfill' = [backfill EXCEPT !.queue = rest,
                         !.log = Append(@, [entry EXCEPT !.threw = readOk, !.outcome = "error"])]
       /\ UNCHANGED snapshots
  ELSE IF exists
  THEN /\ backfill' = [backfill EXCEPT !.queue = rest, !.skipped = @ + 1,
                         !.log = Append(@, [entry EXCEPT !.outcome = "skipped"])]
       /\ UNCHANGED snapshots
  ELSE \/ /\ snapshots' = insertRow(snapshots, [timestamp |-> parsed.snapshot.timestamp,
                                             traders |-> storedTradersOf(parsed.positions),
                                             complete |-> TRUE])
          /\ backfill' = [backfill EXCEPT !.queue = rest, !.saved = @ + 1,
                            !.log = Append(@, [entry EXCEPT !.persisted = TRUE,
                                                            !.outcome = "saved"])]
       \/ \* the nested create fails as a whole
          /\ UNCHANGED snapshots
          /\ backfill' = [backfill EXCEPT !.queue = rest,
                            !.log = Append(@, [entry EXCEPT !.saveFailed = TRUE,
                                                            !.outcome = "error"])]

HistoricalMessage ==
  /\ app = "next"
  /\ backfill.pc = "check"
  /\ backfill.queue # <<>>
  /\ \E readOk \in BOOLEAN :
       historicalMessage(LogEntry(Head(backfill.queue), SnapshotNear(Head(backfill.queue).date),
                                  ~existsNearInclusive(Head(backfill.queue).date), readOk,
                                  readOk /\ existsNearInclusive(Head(backfill.queue).date)),
                         Tail(backfill.queue), readOk,
                         readOk /\ existsNearInclusive(Head(backfill.queue).date),
                         parsedMessages[Head(backfill.queue)])
  /\ UNCHANGED <<now, app, events, lastKnownTraders, tradersInitialized, seeded, pass, started>>
  /\ UNCHANGED <<parserVars, serviceVars>>

HistoricalInit ==
  /\ ParserIdle
  /\ ServiceIdle
  /\ now = 0
  /\ app = "next"
  /\ snapshots \in {<<>>, <<[timestamp |-> 0, traders |-> {"alice"}, complete |-> TRUE]>>}
  /\ events = <<>>
  /\ lastKnownTraders = [m \in Modules |-> {}]
  /\ tradersInitialized = [m \in Modules |-> FALSE]
  /\ seeded = [m \in Modules |-> FALSE]
  /\ pass = [d \in Drivers |-> IdlePass]
  /\ started = 0
  /\ backfill = IdleBackfill

HistoricalNext == HistoricalStart \/ HistoricalMessage \/ BackfillFinish

SpecHistorical == HistoricalInit /\ [][HistoricalNext]_vars

(***************************************************************************)
(* Backfill of the Express server while its refresh drivers run: the       *)
(* handlers and the timer callback interleave at their awaits.             *)
(***************************************************************************)
MixedInit ==
  /\ ParserIdle
  /\ ServiceIdle
  /\ now = 0
  /\ app = "express"
  /\ snapshots = <<>>
  /\ events = <<>>
  /\ lastKnownTraders = [m \in Modules |-> {}]
  /\ tradersInitialized = [m \in Modules |-> FALSE]
  /\ seeded = [m \in Modules |-> FALSE]
  /\ pass = [d \in Drivers |-> IdlePass]
  /\ started = 0
  /\ backfill = IdleBackfill

\* the timer fires, or POST /api/refresh arrives, while the backfill handler is suspended
\* at an await of its loop
StartDuringBackfill(d) ==
  /\ backfill.pc \in {"check", "save"}
  /\ started = 0
  /\ StartPass(d)

\* the run and the pass end within the minute in which they began
MixedNext ==
  \/ BackfillStart
  \/ BackfillCheck
  \/ BackfillSave
  \/ BackfillFinish
  \/ \E d \in DriversOf("express") :
       \/ StartDuringBackfill(d)
       \/ expressSeed(d)
       \/ FetchAndParse(d)
       \/ SavePortfolio(d)
       \/ expressDetect(d)
       \/ EmitEvent(d)
       \/ UpdateLastKnown(d)

SpecMixed == MixedInit /\ [][MixedNext]_vars

(***************************************************************************)
(* Transport: TelegramPortfolioClient.sendPositionsCommand.  Times are in  *)
(* milliseconds.                                                           *)
(***************************************************************************)
MaxChat == 2

PollTimeout == 30000
PollInterval == 1500
MinLength == 50
PollLimit == 10

\* what one round trip of getMessages adds to the sleep of an iteration
Latencies == {0, 1500}
StartClocks == {7000}

LoadingReply == "Loading positions..."
LongLoadingReply == "Still loading your portfolio, this may take a few more seconds"
ShortReply == "No open positions"
FullReply == "Total Balance: $90.20\nAvailable Balance: $10.00\n#1. Will X happen?"
BotTexts == {"", LoadingReply, LongLoadingReply, ShortReply, FullReply}

ChatMessages ==
  [fromBot : {TRUE}, message : BotTexts] \cup [fromBot : {FALSE}, message : {"/positions"}]

\* telegram.ts:87-91: a reply that says it is loading, or is too short to be a portfolio
isPlaceholder(msgText) ==
  includes(msgText, "Loading") \/ includes(msgText, "loading") \/ Len(msgText) < MinLength

\* getMessages(entity, {limit}): the newest messages, newest first
getMessages(messages, limit) ==
  [i \in 1..(IF Len(messages) < limit THEN Len(messages) ELSE limit) |->
     messages[Len(messages) + 1 - i]]

\* telegram.ts:78-81: a non-empty message of the bot that is newer than the command
isReply(message, lastMessageId) ==
  message.id > lastMessageId /\ message.fromBot /\ message.message # ""

\* telegram.ts:76-97: the scan of one poll; every reply it looks at is remembered
RECURSIVE scanMessages(_, _, _)
scanMessages(messages, lastMessageId, seenMessageIds) ==
  IF messages = <<>> THEN [returned |-> <<>>, seen |-> seenMessageIds]
  ELSE IF isReply(Head(messages), lastMessageId) /\ Head(messages).id \notin seenMessageIds
  THEN IF isPlaceholder(Head(messages).message)
       THEN scanMessages(Tail(messages), lastMessageId, seenMessageIds \cup {Head(messages).id})
       ELSE [returned |-> <<Head(messages).message>>,
             seen |-> seenMessageIds \cup {Head(messages).id}]
  ELSE scanMessages(Tail(messages), lastMessageId, seenMessageIds)

\* telegram.ts:102-112: the scan after the timeout returns the newest reply
RECURSIVE scanAfterTimeout(_, _)
scanAfterTimeout(messages, lastMessageId) ==
  IF messages = <<>> THEN <<>>
  ELSE IF isReply(Head(messages), lastMessageId) THEN <<Head(messages).message>>
  ELSE scanAfterTimeout(Tail(messages), lastMessageId)

\* the model follows the clock of a call no further than this
ClockCap == 2 * PollTimeout

withinTimeoutAs(clock, startTime) == TRUE

\* telegram.ts:71: Date.now() - startTime < timeout
withinTimeout(clock, startTime) == clock - startTime < PollTimeout

\* telegram.ts:115-120: every error is rethrown as a failure of the command
failedSend(reason) == [send EXCEPT !.pc = "failed", !.error = "Failed to get positions: " \o reason]

\* the bot, or the user, posts a message in the chat
MessageArrives ==
  /\ app = "none"
  /\ send.pc \in {"ready", "poll"}
  /\ Len(chat) < MaxChat + (IF send.pc = "poll" THEN 1 ELSE 0)
  /\ \E m \in ChatMessages :
       chat' = Append(chat, [id |-> Len(chat) + 1, fromBot |-> m.fromBot, message |-> m.message])
  /\ UNCHANGED send
  /\ UNCHANGED <<now, parserVars, reconVars, auth, timers>>

\* telegram.ts:55-67: the newest id is noted, '/positions' is sent, the timer starts
SendCommand ==
  /\ app = "none"
  /\ send.pc = "ready"
  /\ \/ /\ send' = failedSend("transport")
        /\ UNCHANGED chat
     \/ /\ chat' = Append(chat, [id |-> Len(chat) + 1, fromBot |-> FALSE, message |-> "/positions"])
        /\ send' = [send EXCEPT !.pc = "poll", !.lastMessageId = Len(chat),
                                !.startTime = send.clock]
  /\ UNCHANGED <<now, parserVars, reconVars, auth, timers>>

\* the outcome of one iteration whose scan has answered found
afterPoll(found, latency) ==
  IF found.returned # <<>>
  THEN [send EXCEPT !.pc = "returned", !.returned = found.returned, !.seen = found.seen,
                    !.polls = @ + 1]
  ELSE [send EXCEPT !.seen = found.seen, !.polls = @ + 1,
                    !.clock = @ + PollInterval + latency]

\* telegram.ts:71-100: one iteration of the polling loop, with its sleep
PollMessages ==
  /\ app = "none"
  /\ send.pc = "poll"
  /\ withinTimeout(send.clock, send.startTime)
  /\ send.clock - send.startTime < ClockCap
  /\ \/ send' = failedSend("transport")
     \/ \E latency \in Latencies :
          send' = afterPoll(scanMessages(getMessages(chat, PollLimit), send.lastMessageId,
                                         send.seen), latency)
  /\ UNCHANGED chat
  /\ UNCHANGED <<now, parserVars, reconVars, auth, timers>>

\* the outcome of the last look at the chat, which has answered found
afterTimeout(found) ==
  IF found # <<>> THEN [send EXCEPT !.pc = "returned", !.returned = found]
  ELSE failedSend("Timeout waiting for bot response")

\* telegram.ts:102-114: the loop is over
TimeoutExpired ==
  /\ app = "none"
  /\ send.pc = "poll"
  /\ ~withinTimeout(send.clock, send.startTime)
  /\ \/ send' = failedSend("transport")
     \/ send' = afterTimeout(scanAfterTimeout(getMessages(chat, PollLimit), send.lastMessageId))
  /\ UNCHANGED chat
  /\ UNCHANGED <<now, parserVars, reconVars, auth, timers>>

SendInit ==
  /\ ParserIdle
  /\ ReconIdle
  /\ now = 0
  /\ chat = <<>>
  /\ \E c \in StartClocks : send = [IdleSend EXCEPT !.pc = "ready", !.clock = c]
  /\ auth = IdleAuth
  /\ timers = IdleTimers

SendNext == MessageArrives \/ SendCommand \/ PollMessages \/ TimeoutExpired

SpecSend == SendInit /\ [][SendNext]_vars

\* every await of the call completes
SpecSendLive ==
  SpecSend /\ WF_vars(SendCommand) /\ WF_vars(PollMessages) /\ WF_vars(TimeoutExpired)

(***************************************************************************)
(* Authentication: the auth sessions (auth-sessions.ts, auth-web.ts) and   *)
(* the auth endpoints of the three servers.  Times are in minutes.         *)
(***************************************************************************)
MaxAuthClock == 13
MaxStarts == 1

AuthSessionTimeout == 10
CleanupInterval == 2

\* index.ts, the Next routes, and the server of part_009
AuthServers == {"index", "next", "standalone"}

SessionString == "1BQANOTEuMTA4LjU2"

isStaleAs(clock, createdAt) == FALSE

\* now - session.createdAt > AUTH_SESSION_TIMEOUT_MS
isStale(clock, createdAt) == clock - createdAt > AuthSessionTimeout

StaleIds == {id \in SessionIds : auth.sessions[id] # <<>> /\ isStale(auth.clock, auth.sessions[id][1].createdAt)}

\* the results of submitPhoneNumber, submitCode and submitPassword
notFound(message) == [success |-> FALSE, error |-> message, nextStep |-> "", sessionString |-> <<>>]
failure(message) == [success |-> FALSE, error |-> message, nextStep |-> "", sessionString |-> <<>>]
nextStep(step) == [success |-> TRUE, error |-> "", nextStep |-> step, sessionString |-> <<>>]
complete == [success |-> TRUE, error |-> "", nextStep |-> "complete", sessionString |-> <<SessionString>>]

\* const { sessionString, ...safeResult } = result
safeResult(r) == [r EXCEPT !.sessionString = <<>>]

\* what the code and password endpoints of a server send for the result r
responseBody(server, r) == IF server = "standalone" THEN r ELSE safeResult(r)

respond(endpoint, id, wasExpired, body) ==
  [endpoint |-> endpoint, id |-> id, afterCleanup |-> wasExpired, body |-> body]

\* createAuthSession(sessionId, apiId, apiHash) from POST /api/auth/start
AuthStart(id) ==
  /\ auth.server # "none"
  /\ auth.started < MaxStarts
  /\ auth' = [auth EXCEPT !.started = @ + 1,
                          !.sessions[id] = <<[step |-> "phone", createdAt |-> auth.clock]>>,
                          !.disconnected = @ \ {id}, !.expired = @ \ {id}]
  /\ UNCHANGED <<now, parserVars, reconVars, chat, send, timers>>

\* submitPhoneNumber from POST /api/auth/phone
SubmitPhone(id) ==
  /\ auth.server # "none"
  /\ IF auth.sessions[id] = <<>>
     THEN auth' = [auth EXCEPT !.response =
                     respond("phone", id, id \in auth.expired,
                             notFound("Session not found. Please refresh the page and try again."))]
     ELSE \/ auth' = [auth EXCEPT !.sessions[id][1].step = "code",
                                  !.response = respond("phone", id, FALSE, nextStep("code"))]
          \/ auth' = [auth EXCEPT !.response =
                        respond("phone", id, FALSE, failure("Failed to start authentication"))]
  /\ UNCHANGED <<now, parserVars, reconVars, chat, send, timers>>

\* the result of submitCode or submitPassword on a live session is sent by the endpoint
submitted(endpoint, id, r) ==
  IF r.sessionString # <<>>
  THEN [auth EXCEPT !.sessions[id] = <<>>, !.disconnected = @ \cup {id},
                    !.response = respond(endpoint, id, FALSE, responseBody(auth.server, r))]
  ELSE IF r.success
  THEN [auth EXCEPT !.sessions[id][1].step = r.nextStep,
                    !.response = respond(endpoint, id, FALSE, responseBody(auth.server, r))]
  ELSE [auth EXCEPT !.response = respond(endpoint, id, FALSE, responseBody(auth.server, r))]

\* the endpoint's answer when the session map has no entry for id
missing(endpoint, id) ==
  [auth EXCEPT !.response =
     respond(endpoint, id, id \in auth.expired,
             IF auth.server = "next" THEN notFound("Session not found. Please start over.")
             ELSE responseBody(auth.server, notFound("Session not found")))]

\* submitCode from POST /api/auth/code
SubmitCode(id) ==
  /\ auth.server # "none"
  /\ IF auth.sessions[id] = <<>> THEN auth' = missing("code", id)
     ELSE \E r \in {complete, nextStep("password"),
                     failure("Invalid verification code. Please try again.")} :
            auth' = submitted("code", id, r)
  /\ UNCHANGED <<now, parserVars, reconVars, chat, send, timers>>

\* submitPassword from POST /api/auth/password
SubmitPassword(id) ==
  /\ auth.server # "none"
  /\ IF auth.sessions[id] = <<>> THEN auth' = missing("password", id)
     ELSE \E r \in {[complete EXCEPT !.nextStep = ""],
                     failure("Invalid 2FA password. Please check and try again.")} :
            auth' = submitted("password", id, r)
  /\ UNCHANGED <<now, parserVars, reconVars, chat, send, timers>>

\* cleanupStaleSessions, run by setInterval every two minutes
CleanupStaleSessions ==
  /\ auth.server # "none"
  /\ auth.clock = auth.nextCleanup
  /\ auth' = [auth EXCEPT !.nextCleanup = @ + CleanupInterval,
                          !.sessions = [id \in SessionIds |->
                                          IF id \in StaleIds THEN <<>> ELSE auth.sessions[id]],
                          !.disconnected = @ \cup StaleIds,
                          !.expired = @ \cup StaleIds]
  /\ UNCHANGED <<now, parserVars, reconVars, chat, send, timers>>

\* a minute passes; the cleanup timer fires when it is due
AuthTick ==
  /\ auth.server # "none"
  /\ auth.clock < MaxAuthClock
  /\ auth.clock < auth.nextCleanup
  /\ auth' = [auth EXCEPT !.clock = @ + 1]
  /\ UNCHANGED <<now, parserVars, reconVars, chat, send, timers>>

AuthInit ==
  /\ ParserIdle
  /\ ReconIdle
  /\ now = 0
  /\ chat = <<>>
  /\ send = IdleSend
  /\ timers = IdleTimers
  /\ \E server \in AuthServers :
       auth = [IdleAuth EXCEPT !.server = server, !.nextCleanup = CleanupInterval]

AuthNext ==
  \/ AuthTick
  \/ CleanupStaleSessions
  \/ \E id \in SessionIds : AuthStart(id) \/ SubmitPhone(id) \/ SubmitCode(id) \/ SubmitPassword(id)

SpecAuth == AuthInit /\ [][AuthNext]_vars

(***************************************************************************)
(* The refresh timers: start(), initializeTelegram and startAutoRefresh of *)
(* the Express server (index.ts); register(), startScheduler and           *)
(* stopScheduler of the Next application (instrumentation.ts,              *)
(* lib/scheduler.ts).  A timer is the handle that setInterval returned;    *)
(* refreshInterval is the handle the module remembers, 0 for null.         *)
(***************************************************************************)
MaxInits == 2
MaxFired == 3

TimerServers == {"express", "next"}

\* autoRefresh(); refreshInterval = setInterval(autoRefresh, 5 * 60 * 1000)
startAutoRefresh(t) ==
  [t EXCEPT !.startupRefreshes = IF t.phase = "up" THEN @ ELSE @ + 1,
            !.created = @ + 1,
            !.refreshInterval = t.created + 1,
            !.active = @ \cup {t.created + 1}]

\* index.ts:93-132 initializeTelegram: without a session, or when connect throws, the
\* client is null; after a connect the timer is started unless a handle is remembered
initializeTelegram(t, connected) ==
  IF ~connected THEN [t EXCEPT !.client = FALSE]
  ELSE IF t.refreshInterval = 0 THEN startAutoRefresh([t EXCEPT !.client = TRUE])
  ELSE [t EXCEPT !.client = TRUE]

\* lib/scheduler.ts stopScheduler: clearInterval of the remembered handle
stopScheduler(t) ==
  IF t.refreshInterval # 0
  THEN [t EXCEPT !.active = @ \ {t.refreshInterval}, !.refreshInterval = 0]
  ELSE t

\* lib/scheduler.ts startScheduler: stop, run autoRefresh, set the interval
startScheduler(t) == startAutoRefresh(stopScheduler(t))

\* index.ts:469-471 start(): await initializeTelegram()
ServerStart ==
  /\ timers.server = "express"
  /\ timers.phase = "off"
  /\ \E connected \in BOOLEAN :
       timers' = initializeTelegram([timers EXCEPT !.phase = "listen"], connected)
  /\ UNCHANGED <<now, parserVars, reconVars, chat, send, auth>>

\* index.ts:473-481: the callback of app.listen
Listening ==
  /\ timers.server = "express"
  /\ timers.phase = "listen"
  /\ timers' = [(IF timers.client THEN startAutoRefresh(timers) ELSE timers)
                  EXCEPT !.phase = "up"]
  /\ UNCHANGED <<now, parserVars, reconVars, chat, send, auth>>

\* a handler of the running Express server calls initializeTelegram: POST /api/refresh,
\* POST /api/historical/fetch, the auth endpoints after a login
Reinitialize ==
  /\ timers.server = "express"
  /\ timers.phase = "up"
  /\ timers.calls < MaxInits
  /\ \E connected \in BOOLEAN :
       timers' = initializeTelegram([timers EXCEPT !.calls = @ + 1], connected)
  /\ UNCHANGED <<now, parserVars, reconVars, chat, send, auth>>

\* instrumentation.ts register(): initializeTelegramClient, then startScheduler when
\* there is a client
Register ==
  /\ timers.server = "next"
  /\ timers.phase = "off"
  /\ \E connected \in BOOLEAN :
       timers' = [(IF connected THEN startScheduler([timers EXCEPT !.client = TRUE])
                   ELSE timers) EXCEPT !.phase = "up"]
  /\ UNCHANGED <<now, parserVars, reconVars, chat, send, auth>>

\* startScheduler is called again on the running Next application
StartScheduler ==
  /\ timers.server = "next"
  /\ timers.phase = "up"
  /\ timers.calls < MaxInits
  /\ timers' = startScheduler([timers EXCEPT !.calls = @ + 1])
  /\ UNCHANGED <<now, parserVars, reconVars, chat, send, auth>>

StopScheduler ==
  /\ timers.server = "next"
  /\ timers.phase = "up"
  /\ timers.refreshInterval # 0
  /\ timers' = stopScheduler(timers)
  /\ UNCHANGED <<now, parserVars, reconVars, chat, send, auth>>

\* an interval timer fires and runs autoRefresh: index.ts:412-415 initializes Telegram
\* when there is no client, lib/scheduler.ts:112-120 initializes the client only; a
\* connection error drops the client
TimerFires ==
  /\ timers.fired < MaxFired
  /\ \E h \in timers.active, connected \in BOOLEAN, dropped \in BOOLEAN :
       timers' =
         [(IF timers.client THEN [timers EXCEPT !.client = ~dropped]
           ELSE IF timers.server = "express" THEN initializeTelegram(timers, connected)
           ELSE [timers EXCEPT !.client = connected])
            EXCEPT !.fired = timers.fired + 1]
  /\ UNCHANGED <<now, parserVars, reconVars, chat, send, auth>>

TimersInit ==
  /\ ParserIdle
  /\ ReconIdle
  /\ now = 0
  /\ chat = <<>>
  /\ send = IdleSend
  /\ auth = IdleAuth
  /\ \E server \in TimerServers : timers = [IdleTimers EXCEPT !.server = server]

TimersNext ==
  \/ ServerStart
  \/ Listening
  \/ Reinitialize
  \/ Register
  \/ StartScheduler
  \/ StopScheduler
  \/ TimerFires

SpecTimers == TimersInit /\ [][TimersNext]_vars

(***************************************************************************)
(* Properties of the parser.                                               *)
(***************************************************************************)
L(i) == LineLibrary[input[i]]

Called == result # NoResult
Returned == Called /\ ~result.threw

NoHeaderBefore(i) == \A j \in 1..(i - 1) : ~L(j).header
NoHeader == \A i \in 1..Len(input) : ~L(i).header

SummaryFields == {"total_balance", "available_balance", "invested", "value"}

\* the last non-negative amount stated for field f above the first header, zero when none
ExpectedSummary(f) ==
  LET Stated(i) == NoHeaderBefore(i) /\ ~L(i).header /\ L(i).field = f /\ L(i).amount.m > 0
      I == {i \in 1..Len(input) : Stated(i)}
  IN IF I = {} THEN Zero
     ELSE L(CHOOSE i \in I : \A j \in I : j <= i).amount

\* the first numbered header with a question mark, 0 when the message has none
FirstHeader ==
  IF NoHeader THEN 0 ELSE CHOOSE i \in 1..Len(input) : L(i).header /\ NoHeaderBefore(i)

\* the lines a reader takes for navigation controls
NavigationLines == {"Refresh", "# 2"}

\* line i matches the numbered-header pattern and has a question mark or over 20 characters
LooksLikeHeader(i) ==
  matchesNumbered(L(i).line) /\ (includes(L(i).line, "?") \/ Len(L(i).line) > 20)

\* the header lines met in positions mode before parsing stops, in message order
RECURSIVE HeadersFrom(_)
HeadersFrom(i) ==
  IF FirstHeader = 0 \/ i > Len(input) \/ L(i).line \in NavigationLines THEN <<>>
  ELSE (IF LooksLikeHeader(i) THEN <<L(i).line>> ELSE <<>>) \o HeadersFrom(i + 1)

ExpectedHeaders == IF FirstHeader = 0 THEN <<>> ELSE HeadersFrom(FirstHeader)

\* C24: the output has one position per header line met in positions mode before parsing
\* stops, in message order, whatever words the question holds.
OnePositionPerHeader ==
  Returned =>
    /\ Len(result.positions) = Len(ExpectedHeaders)
    /\ \A k \in 1..Len(result.positions) :
         result.positions[k].market_question = marketTextOf(ExpectedHeaders[k])

\* the first navigation control below the first header, 0 when there is none
StopLine ==
  IF FirstHeader = 0 \/ \A j \in (FirstHeader + 1)..Len(input) : L(j).line \notin NavigationLines
  THEN 0
  ELSE CHOOSE j \in (FirstHeader + 1)..Len(input) :
         /\ L(j).line \in NavigationLines
         /\ \A k \in (FirstHeader + 1)..(j - 1) : L(k).line \notin NavigationLines

\* the positions of the message cut off above its first navigation control
PositionsAboveStop ==
  parsePortfolioResponse(TextOf(SubSeq(input, 1, StopLine - 1)), timestamp, 0).positions

\* C25: a navigation control met in positions mode ends position parsing: the output holds
\* the positions of the lines above it, the open one included with the details collected
\* so far, and nothing of the lines below it.
StopsAtControl ==
  Returned /\ StopLine # 0 =>
    /\ result.positions = PositionsAboveStop
    /\ result.positions # <<>>
    /\ result.positions[1].market_question = marketTextOf(L(FirstHeader).line)

\* the position under construction is returned with its entry price, and the header and
\* the PNL line below the control are not read
StopsAtControlWitness ==
  /\ Returned
  /\ input = <<8, 9, 14, 8, 11>>
  /\ Len(result.positions) = 1
  /\ result.positions[1].entry_price = Dec(45, 2)
  /\ result.positions[1].pnl_usd = Zero

\* field f of the snapshot is the default, or the amount that a line above the first
\* header states for it
FromAboveHeader(f) ==
  \/ result.snapshot[f] = Zero
  \/ \E i \in 1..Len(input) :
       NoHeaderBefore(i) /\ ~L(i).header /\ L(i).field = f /\ L(i).amount = result.snapshot[f]

\* the total PNL is the default, or a line above the first header states a total PNL
PnlFromAboveHeader ==
  \/ result.snapshot.total_pnl_usd = Zero /\ result.snapshot.total_pnl_pct = Zero
  \/ \E i \in 1..Len(input) : NoHeaderBefore(i) /\ ~L(i).header /\ L(i).pnl = "total"

\* C26: no line at or below the first numbered header with a question mark changes the
\* balances, invested, value or total PNL of the snapshot.
SummaryStopsAtHeader ==
  Returned /\ ~NoHeader => PnlFromAboveHeader /\ \A f \in SummaryFields : FromAboveHeader(f)

\* the summary states invested 77.70 and value 80.00; the position below the header states
\* invested 50.00 and value 55.00
SummaryStopsAtHeaderWitness ==
  /\ Returned
  /\ input = ExampleSummary \o ExampleDetails
  /\ result.snapshot.invested = Dec(7770, 2)
  /\ result.snapshot.value = Dec(8000, 2)
  /\ result.positions[1].value = Dec(5500, 2)

\* C27: a summary line updates only the field that comes first in the order total balance,
\* available balance, invested, value, total pnl among those whose keywords it matches;
\* every other field keeps what the other lines gave it.
RoutedToOneField ==
  Returned =>
    /\ \A f \in SummaryFields : result.snapshot[f] = ExpectedSummary(f)
    /\ (\A i \in 1..Len(input) : NoHeaderBefore(i) => L(i).pnl # "total") =>
          result.snapshot.total_pnl_usd = Zero /\ result.snapshot.total_pnl_pct = Zero

\* 'Invested Value: $3.00' sets invested and leaves value and the balances at zero
RoutedToOneFieldWitness ==
  /\ Returned
  /\ input = <<28>>
  /\ result.snapshot.invested = Dec(300, 2)
  /\ result.snapshot.value = Zero
  /\ result.snapshot.total_balance = Zero

SessionAge(id) == auth.clock - auth.sessions[id][1].createdAt

\* cleanupStaleSessions has run at the present minute
JustCleaned == auth.nextCleanup = auth.clock + CleanupInterval

SessionStringNotExposed ==
  auth.response # NoResponse => auth.response.body.sessionString = <<>>

\* C1: parsePortfolioResponse is total: every call returns {snapshot, positions} and
\* none raises an error to the caller.
ParserIsTotal == Called => ~result.threw

\* C5: the round-trip message of the specification yields exactly one position with
\* marketQuestion "Will X happen?", side "Yes", entryPrice 0.45, copiedFrom "trader_a".
RoundTripExample ==
  (Called /\ input = ExampleFull) =>
     /\ ~result.threw
     /\ Len(result.positions) = 1
     /\ result.positions[1].market_question = "Will X happen?"
     /\ result.positions[1].side = "Yes"
     /\ result.positions[1].entry_price = Dec(45, 2)
     /\ result.positions[1].copied_from = Some("trader_a")

\* C6: a message without any line that is a numbered header with a question mark parses
\* to an empty position list, and the call raises nothing.
NoHeaderNoPositions == (Called /\ NoHeader) => (~result.threw /\ result.positions = <<>>)

NoHeaderWitness ==
  /\ Returned /\ NoHeader /\ input = <<15, 12>> /\ result.positions = <<>>

\* C7: a message with one line "Total Balance: $X" above every numbered header parses to
\* a snapshot whose totalBalance is X.
TotalBalanceExtracted ==
  Called =>
    \A i \in 1..Len(input) :
      ( /\ L(i).field = "total_balance" /\ L(i).amount.m >= 0
        /\ NoHeaderBefore(i)
        /\ \A j \in 1..Len(input) : j # i => L(j).field # "total_balance" )
      => (~result.threw /\ result.snapshot.total_balance = L(i).amount)

\* C8: a leading minus on the amount of a "Total PNL" line or of a position "PNL" line
\* gives a negative totalPnlUsd / pnlUsd, and a leading minus on the percentage a negative
\* totalPnlPct / pnlPct, with the combined pattern and with the single-number fallback.
NegativePnlPreserved ==
  Returned =>
    /\ \A i \in 1..Len(input) :
         ( /\ L(i).pnl = "total" /\ NoHeaderBefore(i)
           /\ \A j \in 1..Len(input) : j # i => L(j).pnl # "total" )
         => /\ L(i).negAmount => result.snapshot.total_pnl_usd.m < 0
            /\ L(i).negPct => result.snapshot.total_pnl_pct.m < 0
    /\ (Len(input) = 2 /\ L(1).header /\ L(2).pnl = "position")
         => /\ Len(result.positions) = 1
            /\ L(2).negAmount => result.positions[1].pnl_usd.m < 0
            /\ L(2).negPct => result.positions[1].pnl_pct.m < 0

\* C9: in every returned snapshot totalBalance, availableBalance, invested and value are
\* >= 0, and each holds the last non-negative amount stated above the first header: a
\* line with a negative amount leaves the field as it was.
BalancesNonNegative ==
  Returned =>
    \A f \in SummaryFields :
      /\ result.snapshot[f].m >= 0
      /\ result.snapshot[f] = ExpectedSummary(f)

BalancesWitness ==
  /\ Returned /\ input = <<1, 2>> /\ result.snapshot.total_balance = Dec(9020, 2)

\* C10: two calls with the same text and the same explicit timestamp have equal outcomes,
\* whatever the clock shows at each call.
ParseDeterministic == (previous # NoResult /\ timestamp # <<>>) => previous = result

DeterministicWitness ==
  /\ previous # NoResult /\ timestamp # <<>> /\ Len(calls) = 2 /\ calls[1] # calls[2]
  /\ ~result.threw /\ Len(result.positions) = 1


(***************************************************************************)
(* Properties of change detection and of the backfill.                     *)
(***************************************************************************)
Count(q, type, t) ==
  Cardinality({i \in 1..Len(q) : q[i].event_type = type /\ q[i].trader_name = t})

\* the pass of d ran its change detection to the end and no storage call of it failed
Reconciled(d) == pass[d].pc = "done" /\ pass[d].detected /\ ~pass[d].failed

\* the events the pass of d emitted are the last rows of the events table
EmittedArePersisted(d) ==
  /\ Len(pass[d].emitted) <= Len(events)
  /\ \A i \in 1..Len(pass[d].emitted) :
       events[Len(events) - Len(pass[d].emitted) + i] = pass[d].emitted[i]

\* C2: a pass that starts from a non-empty lastKnownTraders and meets no storage failure
\* emits exactly one copier_removed for each trader of lastKnownTraders that the new
\* snapshot lacks, exactly one copier_added for each trader of the new snapshot that
\* lastKnownTraders lacks, and nothing else.
OneEventPerChange ==
  \A d \in Drivers :
    Reconciled(d) /\ pass[d].before # {} =>
      /\ EmittedArePersisted(d)
      /\ Len(pass[d].emitted) =
           Cardinality(pass[d].before \ pass[d].current)
           + Cardinality(pass[d].current \ pass[d].before)
      /\ \A t \in Traders :
           /\ Count(pass[d].emitted, "copier_removed", t) =
                (IF t \in pass[d].before \ pass[d].current THEN 1 ELSE 0)
           /\ Count(pass[d].emitted, "copier_added", t) =
                (IF t \in pass[d].current \ pass[d].before THEN 1 ELSE 0)

\* the second pass found alice gone and bob new
OneEventPerChangeWitness ==
  \E d \in Drivers :
    /\ Reconciled(d)
    /\ started = 2
    /\ pass[d].before = {"alice"}
    /\ pass[d].current = {"bob"}
    /\ Len(pass[d].emitted) = 2

\* C3: a pass that starts from an empty lastKnownTraders emits no event and leaves
\* lastKnownTraders equal to the trader set of its snapshot, whichever driver runs it.
BaselineIsSilent ==
  \A d \in Drivers :
    Reconciled(d) /\ pass[d].before = {} =>
      /\ pass[d].emitted = <<>>
      /\ lastKnownTraders[ModuleOf(d)] = pass[d].current

\* the change detection of d's pass reached its last statement, the update of
\* lastKnownTraders
Completed(d) ==
  /\ pass[d].pc = "done" /\ pass[d].detected
  /\ pass[d].outcome = "ok" /\ pass[d].queue = <<>>

\* C11: once the change detection of a pass has completed, lastKnownTraders of the
\* driver's module is exactly the trader set of the pass's snapshot: traders of the
\* previous set that the snapshot lacks are gone and nothing of it is merged in.
FullReplacement ==
  \A d \in Drivers :
    Completed(d) =>
      /\ lastKnownTraders[ModuleOf(d)] = pass[d].current
      /\ lastKnownTraders[ModuleOf(d)] = snapshots[pass[d].snapshotId].traders

\* alice and bob were known, the new snapshot has bob only, and alice is dropped
FullReplacementWitness ==
  \E d \in Drivers :
    /\ Completed(d)
    /\ pass[d].before = {"alice", "bob"}
    /\ pass[d].current = {"bob"}
    /\ lastKnownTraders[ModuleOf(d)] = {"bob"}

\* C12: once a seed of a module's lastKnownTraders from the latest stored snapshot has
\* succeeded, every later seed attempt of a driver of that module leaves the set as it is.
SeededOnce ==
  [][\A d \in Drivers :
       pass[d].pc = "seed" /\ seeded[ModuleOf(d)] =>
         lastKnownTraders'[ModuleOf(d)] = lastKnownTraders[ModuleOf(d)]]_vars

\* the pass of d ended after a storage call of it had failed
FailedPass(d) == pass[d].pc = "done" /\ pass[d].failed

\* the pass of d is a retry: it saved the same traders as the snapshot saved before it
IsRetry(d) ==
  /\ pass[d].snapshotId >= 2
  /\ snapshots[pass[d].snapshotId - 1].traders = snapshots[pass[d].snapshotId].traders

\* the events table as it was before the pass of d appended to it
EventsBefore(d) == SubSeq(events, 1, Len(events) - Len(pass[d].emitted))

\* C13: a pass in which a storage call failed leaves lastKnownTraders as it was when
\* the pass began, and a pass that retries the snapshot of the pass before it emits no
\* event that the events table already holds.
FailedPassIsRetryable ==
  \A d \in Drivers :
    /\ FailedPass(d) => lastKnownTraders[ModuleOf(d)] = pass[d].before
    /\ pass[d].pc = "done" /\ IsRetry(d) =>
         \A i \in 1..Len(pass[d].emitted) :
           Count(EventsBefore(d), pass[d].emitted[i].event_type,
                 pass[d].emitted[i].trader_name) = 0

\* the pass of d ended because an append to the events table failed: the event that
\* failed and those after it are still in the queue
EventAppendFailed(d) == pass[d].pc = "done" /\ pass[d].detected /\ pass[d].queue # <<>>

\* the snapshot that the pass of d saved is in storage, with all its traders
SnapshotKept(d) ==
  /\ pass[d].snapshotId \in 1..Len(snapshots)
  /\ snapshots[pass[d].snapshotId] =
       [timestamp |-> pass[d].snapTime, traders |-> pass[d].stored, complete |-> TRUE]

\* C14: a pass in which the append of an event failed still reports success to its
\* caller, and the snapshot it saved stays in storage.
EventFailureIsContained ==
  \A d \in Drivers :
    EventAppendFailed(d) => pass[d].outcome = "ok" /\ SnapshotKept(d)

\* C15: when the append of one event of a pass fails, the events of the other added and
\* removed traders of the pass are still attempted: nothing but the event that failed
\* is left in the queue when the pass ends.
EventFailuresAreIsolated ==
  \A d \in Drivers :
    pass[d].pc = "done" => Len(pass[d].queue) <= 1

\* what a reader sees in the messages of the backfill
Unparseable(message) == message = ThrowingResponse
CarriesData(message) == message \in {ResponseOf({}), ResponseOf({"alice"})}

Outcomes(type) == Cardinality({i \in 1..Len(backfill.log) : backfill.log[i].outcome = type})

\* the pass of d has saved its snapshot and has not yet replaced lastKnownTraders
Reconciling(d) == pass[d].pc \in {"detect", "emit"}

\* C17: at most one pass at a time is between its snapshot save and its update of
\* lastKnownTraders.
OnePassInFlight ==
  \A d \in Drivers, e \in Drivers : Reconciling(d) /\ Reconciling(e) => d = e

\* C23: the text that sendPositionsCommand returns is the text of a reply of the bot
\* newer than the command, and it is not a placeholder.
NeverPlaceholder ==
  send.pc = "returned" =>
    /\ \E i \in 1..Len(chat) : isReply(chat[i], send.lastMessageId)
                               /\ chat[i].message = send.returned[1]
    /\ ~isPlaceholder(send.returned[1])

SendOver == send.pc \in {"returned", "failed"}

\* the last iteration starts before the timeout has passed
MaxPolls == PollTimeout \div PollInterval

\* C28: sendPositionsCommand polls for at most the timeout and then ends, with a reply or
\* with a failure; a failure after the timeout is 'Timeout waiting for bot response'.
SendTerminates ==
  /\ [](send.polls <= MaxPolls)
  /\ [](send.pc = "failed" /\ ~withinTimeout(send.clock, send.startTime) =>
          \/ includes(send.error, "Timeout waiting for bot response")
          \/ includes(send.error, "transport"))
  /\ <>SendOver

\* the bot never answered: the call polled until the timeout and failed with the timeout error
SendTerminatesWitness ==
  /\ send.pc = "failed"
  /\ send.polls = MaxPolls
  /\ send.clock - send.startTime >= PollTimeout
  /\ send.error = "Failed to get positions: Timeout waiting for bot response"

IsPrefix(a, b) == Len(a) <= Len(b) /\ SubSeq(b, 1, Len(a)) = a

\* C22: no step modifies or deletes a persisted snapshot or event: the stored rows stay
\* as they are and new rows come after them.
AppendOnly == [][IsPrefix(snapshots, snapshots') /\ IsPrefix(events, events')]_vars

\* two passes have each persisted a snapshot and an event
AppendOnlyWitness ==
  /\ Len(snapshots) >= 2 /\ Len(events) >= 2
  /\ \E d \in Drivers : pass[d].pc = "done" /\ pass[d].snapshotId = 2 /\ pass[d].emitted # <<>>

\* C21: when a pass has ended in failure, the latest snapshot is the one that was latest
\* when the pass started.
FailedPassKeepsLatest ==
  \A d \in Drivers :
    pass[d].pc = "done" /\ pass[d].outcome = "error" => LatestIds = pass[d].latestBefore

\* C20: every persisted snapshot is stored with all of its positions.
SnapshotsAreComplete == \A i \in 1..Len(snapshots) : snapshots[i].complete

\* C19: every event a pass has emitted carries the timestamp of the snapshot that the
\* pass saved.
EventsCarrySnapshotTime ==
  \A d \in Drivers : \A i \in 1..Len(pass[d].emitted) :
    pass[d].emitted[i].timestamp = pass[d].snapTime

\* C18: the messages of one backfill run are processed in non-decreasing order of their
\* dates.
OldestFirst ==
  \A i \in 1..Len(backfill.log), j \in 1..Len(backfill.log) :
    i < j => backfill.log[i].date <= backfill.log[j].date

\* C16: a message whose duplicate check could not be read is counted as an error and is
\* not persisted.
FailedReadsAreErrors ==
  \A i \in 1..Len(backfill.log) :
    backfill.log[i].readFailed =>
      backfill.log[i].outcome = "error" /\ ~backfill.log[i].persisted

EveryMessageAccounted ==
  backfill.pc = "done" =>
    /\ Len(backfill.log) = backfill.totalMessages
    /\ backfill.saved + backfill.skipped + backfill.errors = backfill.totalMessages

\* C32: in a store written only by backfill runs, no two snapshots are less than the
\* tolerance apart: every snapshot a run persisted had no persisted snapshot inside its
\* window when it was written.
NoSnapshotsInsideWindow ==
  \A i \in 1..Len(snapshots), j \in 1..Len(snapshots) :
    i # j => Distance(snapshots[i].timestamp, snapshots[j].timestamp) >= ToleranceMinutes

\* C33: when the backfill persists a snapshot for a message whose duplicate check was
\* read and answered no, no persisted snapshot lies inside the window of the message at
\* the moment of the write, also while a refresh pass is running.
NoWriteBetweenCheckAndSave ==
  [][(/\ backfill.pc = "save"
      /\ backfill'.pc # "save"
      /\ Len(snapshots') > Len(snapshots)
      /\ ~backfill.current[1].readFailed)
       => ~SnapshotNear(backfill.current[1].date)]_vars

\* C34: no step of a backfill run changes lastKnownTraders or appends an event.
BackfillKeepsDetectionState ==
  [][backfill' # backfill => lastKnownTraders' = lastKnownTraders /\ events' = events]_vars

\* C35: while no pass is in flight, a pass that has ended with success has left
\* lastKnownTraders of its module equal to the trader set of the snapshot it persisted.
TradersMatchLastSnapshot ==
  (\A e \in Drivers : ~InFlight(e)) =>
    \A d \in Drivers :
      pass[d].pc = "done" /\ pass[d].outcome = "ok" =>
        /\ pass[d].snapshotId \in 1..Len(snapshots)
        /\ lastKnownTraders[ModuleOf(d)] = snapshots[pass[d].snapshotId].traders

\* C36: at most one refresh interval timer is active, and start-up has run the immediate
\* refresh at most once.
OneRefreshTimer ==
  /\ Cardinality(timers.active) <= 1
  /\ timers.startupRefreshes <= 1

\* the entry of the message whose duplicate check has just been made
CheckedEntry(b) == IF b.pc = "save" THEN b.current[1] ELSE b.log[Len(b.log)]

\* C37: whenever the duplicate check of db.ts is made and its read works, its answer is
\* the answer of the duplicate check of lib/db.ts for the same store and timestamp.
StorageFormsAgree ==
  [][(/\ backfill.pc = "check"
      /\ backfill'.pc \in {"check", "save"}
      /\ backfill' # backfill
      /\ ~CheckedEntry(backfill').readFailed)
       => (CheckedEntry(backfill').exists <=> existsNearInclusive(CheckedEntry(backfill').date))]_vars

\* C38: for every text and timestamp the two forms of parsePortfolioResponse either both
\* raise or both return, and then the result of the lib form, with its fields renamed,
\* is the result of the parser.ts form: the same snapshot and the same positions in the
\* same order.
FormsEquivalent ==
  libResult # NoResult =>
    /\ libResult.threw <=> result.threw
    /\ snakeResult(libResult) = result

\* both forms return the one position of the example message
FormsEquivalentWitness ==
  /\ libResult # NoResult
  /\ input = ExampleSummary \o Pick(ExampleDetails, 1..5, 1)
  /\ ~libResult.threw /\ ~result.threw
  /\ Len(libResult.positions) = 1
  /\ libResult.positions[1].marketQuestion = "Will X happen?"
  /\ libResult.snapshot.totalBalance = Dec(9020, 2)

\* C39: every position of a returned result has a non-empty market question and the
\* side "Yes" or "No"; a numbered line with no text after its prefix and check mark
\* adds no position to the output.
PositionsWellFormed ==
  result # NoResult /\ ~result.threw =>
    /\ \A i \in 1..Len(result.positions) :
         /\ result.positions[i].market_question # ""
         /\ result.positions[i].side \in {"Yes", "No"}
    /\ Len(result.positions) <=
         Cardinality({i \in 1..Len(input) : L(i).line # BlankHeaderLine /\ opensPosition(L(i).line)})

\* the blank numbered line closes the position of the header above it and the entry
\* price under it is lost with the position that is never output
PositionsWellFormedWitness ==
  /\ input = <<8, 30, 9>>
  /\ L(2).line = BlankHeaderLine
  /\ result # NoResult /\ ~result.threw
  /\ Len(result.positions) = 1
  /\ result.positions[1].market_question = "Will X happen?"
  /\ result.positions[1].entry_price = Zero

Init == ParserInit
Next == ParserNext
Spec == SpecParser
====
